---- MODULE Spec2Model ----
(***************************************************************************)
(* mimic-proxy: the request-handling core of pkg/mimicproxy.               *)
(*                                                                         *)
(* Strings are sequences of one-character strings, so that prefix tests,   *)
(* case folding, URL parsing and concatenation are computed character by   *)
(* character as the Go code computes them.  Durations are in seconds.      *)
(***************************************************************************)
EXTENDS Integers, Sequences, FiniteSets, TLC

VARIABLES
    config,     \* the *Config handed to New (routes in the caller's order)
    routes,     \* Proxy.routes: the route list sorted by New
    env,        \* the process environment (name -> value)
    pc,         \* position of the request handler
    served,     \* number of requests handled so far
    req,        \* the inbound *http.Request
    matched,    \* index in routes of matchedRoute, 0 when there is none
    outreq,     \* the clone ReverseProxy hands to the director and the transport
    upstream,   \* what the upstream server observes and answers
    elapsed,    \* the transport's timer while it waits for the response headers
    writers,    \* the per-request response writer wrappers
    respHeader, \* the header map of the underlying http.ResponseWriter
    client,     \* what has been written to the client
    metrics,    \* the Prometheus counters
    idleConns   \* idle keep-alive connections in the pool of the shared transport

vars == <<config, routes, env, pc, served, req, matched, outreq, upstream,
          elapsed, writers, respHeader, client, metrics, idleConns>>

----------------------------------------------------------------------------
(* Bounds of the model.                                                     *)

MaxRoutes == 2
MaxRequests == 1

----------------------------------------------------------------------------
(* package strings                                                          *)

UpperLetters == <<"A","B","C","D","E","F","G","H","I","J","K","L","M",
                  "N","O","P","Q","R","S","T","U","V","W","X","Y","Z">>
LowerLetters == <<"a","b","c","d","e","f","g","h","i","j","k","l","m",
                  "n","o","p","q","r","s","t","u","v","w","x","y","z">>

IsUpper(c) == \E i \in 1..26 : UpperLetters[i] = c
IsLower(c) == \E i \in 1..26 : LowerLetters[i] = c
IsLetter(c) == IsUpper(c) \/ IsLower(c)

LowerChar(c) ==
    IF IsUpper(c) THEN LowerLetters[CHOOSE i \in 1..26 : UpperLetters[i] = c] ELSE c
UpperChar(c) ==
    IF IsLower(c) THEN UpperLetters[CHOOSE i \in 1..26 : LowerLetters[i] = c] ELSE c

ToLower(s) == [i \in 1..Len(s) |-> LowerChar(s[i])]

HasPrefix(s, p) == Len(p) <= Len(s) /\ SubSeq(s, 1, Len(p)) = p
HasSuffix(s, p) == Len(p) <= Len(s) /\ SubSeq(s, Len(s) - Len(p) + 1, Len(s)) = p
TrimPrefix(s, p) == IF HasPrefix(s, p) THEN SubSeq(s, Len(p) + 1, Len(s)) ELSE s
TrimSuffix(s, p) == IF HasSuffix(s, p) THEN SubSeq(s, 1, Len(s) - Len(p)) ELSE s

\* The least element of a set of integers, none when the set is empty.
LeastOr(S, none) == IF S = {} THEN none ELSE CHOOSE i \in S : \A j \in S : i <= j

\* strings.Index: the 0-based position of the first occurrence, -1 if none.
Index(s, sub) ==
    LeastOr({i \in 0..(Len(s) - Len(sub)) : SubSeq(s, i + 1, i + Len(sub)) = sub}, -1)

Contains(s, sub) == Index(s, sub) >= 0

\* s[from:] with a 0-based offset.
From(s, from) == SubSeq(s, from + 1, Len(s))
\* s[:to] with a 0-based exclusive end.
Upto(s, to) == SubSeq(s, 1, to)

\* strings.Cut, given the position i of the separator of length n.
CutAt(s, i, n) ==
    IF i = -1 THEN [before |-> s, after |-> <<>>, found |-> FALSE]
    ELSE [before |-> Upto(s, i), after |-> From(s, i + n), found |-> TRUE]

Cut(s, sep) == CutAt(s, Index(s, sep), Len(sep))

RECURSIVE TrimSpace(_)
TrimSpace(s) ==
    IF s = <<>> THEN s
    ELSE IF s[1] = " " THEN TrimSpace(Tail(s))
    ELSE IF s[Len(s)] = " " THEN TrimSpace(SubSeq(s, 1, Len(s) - 1))
    ELSE s

\* strings.Split(s, sep) for a one-character separator.
RECURSIVE Split(_, _)
Split(s, sep) ==
    IF Index(s, sep) = -1 THEN <<s>>
    ELSE <<Cut(s, sep).before>> \o Split(Cut(s, sep).after, sep)

----------------------------------------------------------------------------
(* net/http.Header: a map from canonical header names to value lists.       *)

\* textproto.CanonicalMIMEHeaderKey: a name holding a space is left as it is,
\* otherwise the first letter and every letter after '-' is upper-cased and
\* all other letters are lower-cased.
CanonicalHeaderKey(name) ==
    IF \E i \in 1..Len(name) : name[i] = " " THEN name
    ELSE [i \in 1..Len(name) |->
            IF i = 1 \/ name[i - 1] = "-" THEN UpperChar(name[i]) ELSE LowerChar(name[i])]

HeaderGet(h, name) ==
    LET k == CanonicalHeaderKey(name)
    IN  IF k \in DOMAIN h /\ Len(h[k]) > 0 THEN h[k][1] ELSE <<>>

HeaderSet(h, name, value) ==
    LET k == CanonicalHeaderKey(name)
    IN  [x \in DOMAIN h \cup {k} |-> IF x = k THEN <<value>> ELSE h[x]]

HeaderDel(h, name) ==
    LET k == CanonicalHeaderKey(name)
    IN  [x \in DOMAIN h \ {k} |-> h[x]]

EmptyHeader == [x \in {} |-> <<>>]

----------------------------------------------------------------------------
(* Header names and other string literals                                   *)

XForwardedFor == <<"X","-","F","o","r","w","a","r","d","e","d","-","F","o","r">>
XForwardedProto == <<"X","-","F","o","r","w","a","r","d","e","d","-","P","r","o","t","o">>
Via == <<"V","i","a">>
UserAgent == <<"U","s","e","r","-","A","g","e","n","t">>
Connection == <<"C","o","n","n","e","c","t","i","o","n">>
KeepAlive == <<"K","e","e","p","-","A","l","i","v","e">>
ProxyAuthenticate == <<"P","r","o","x","y","-","A","u","t","h","e","n","t","i","c","a","t","e">>
ProxyAuthorization == <<"P","r","o","x","y","-","A","u","t","h","o","r","i","z","a","t","i","o","n">>
Te == <<"T","e">>
Trailers == <<"T","r","a","i","l","e","r","s">>
TransferEncoding == <<"T","r","a","n","s","f","e","r","-","E","n","c","o","d","i","n","g">>
Upgrade == <<"U","p","g","r","a","d","e">>
XCustom == <<"X","-","C","u","s","t","o","m">>
XApiKey == <<"X","-","A","p","i","-","K","e","y">>
Location == <<"L","o","c","a","t","i","o","n">>
Server == <<"S","e","r","v","e","r">>

\* The literal compared against in headerStrippingTransport.RoundTrip.
XForwardedStar == <<"X","-","F","o","r","w","a","r","d","e","d","-","*">>

Http == <<"h","t","t","p">>
Https == <<"h","t","t","p","s">>

\* removeHopByHopHeaders: the hopByHopHeaders slice
hopByHopHeaders == <<Connection, KeepAlive, ProxyAuthenticate, ProxyAuthorization,
                     Te, Trailers, TransferEncoding, Upgrade>>

----------------------------------------------------------------------------
(* Header engine (HeaderManipulator)                                        *)

Star == <<"*">>

\* matchesPattern(headerName, pattern)
matchesPattern(headerName, pattern) ==
    LET name == ToLower(headerName)
        pat  == ToLower(pattern)
    IN  IF name = pat THEN TRUE
        ELSE IF Contains(pat, Star) THEN HasPrefix(name, TrimSuffix(pat, Star))
        ELSE FALSE

\* stripHeaders that keeps nothing.
stripHeadersAll(header, patterns) == EmptyHeader

\* stripHeaders(header, patterns)
stripHeaders(header, patterns) ==
    LET kept == {key \in DOMAIN header :
                    ~ \E i \in 1..Len(patterns) : matchesPattern(key, patterns[i])}
    IN  [key \in kept |-> header[key]]

\* os.Getenv: the value of the variable, "" when it is unset.
Getenv(e, name) == IF name \in DOMAIN e THEN e[name] ELSE <<>>

DollarBrace == <<"$", "{">>
CloseBrace == <<"}">>

\* expandEnvVars(value): the loop of the function, with its two cursors.
RECURSIVE expandLoop(_, _, _)

\* expanded = expanded[:idx] + varValue + expanded[endIdx+1:]; start = idx + len(varValue)
expandVar(e, expanded, idx, endIdx, varValue) ==
    expandLoop(e, Upto(expanded, idx) \o varValue \o From(expanded, endIdx + 1),
               idx + Len(varValue))

\* endIdx := strings.Index(expanded[idx:], "}"), relative to idx
expandClose(e, expanded, idx, endIdx) ==
    IF endIdx = -1 THEN expanded
    ELSE expandVar(e, expanded, idx, endIdx + idx,
                   Getenv(e, SubSeq(expanded, idx + 3, endIdx + idx)))

\* idx := strings.Index(expanded[start:], "${"), relative to start
expandOpen(e, expanded, start, idx) ==
    IF idx = -1 THEN expanded
    ELSE expandClose(e, expanded, idx + start,
                     Index(From(expanded, idx + start), CloseBrace))

expandLoop(e, expanded, start) ==
    expandOpen(e, expanded, start, Index(From(expanded, start), DollarBrace))

\* expandEnvVars on the environment as it was when the proxy was built.
expandEnvVarsAtNew(e, value) == expandLoop((<<"K">> :> <<"s","3">>), value, 0)

\* expandEnvVars that expands nothing.
expandEnvVarsNone(e, value) == value

expandEnvVars(e, value) == expandLoop(e, value, 0)

\* The two "for key, value := range m { outHeader.Set(key, ...) }" loops of
\* processHeaders.  The configurations of this model have no two keys with
\* the same canonical form, so the iteration order of the map is immaterial.
SetAll(h, m) ==
    LET keys == {CanonicalHeaderKey(x) : x \in DOMAIN m}
    IN  [k \in DOMAIN h \cup keys |->
            IF k \in keys
            THEN <<m[CHOOSE x \in DOMAIN m : CanonicalHeaderKey(x) = k]>>
            ELSE h[k]]

\* HeaderManipulator.processHeaders
processHeaders(e, inHeader, stripPatterns, replaceHeaders, addHeaders) ==
    LET stripped == stripHeaders(inHeader, stripPatterns)
        replaced == SetAll(stripped, replaceHeaders)
        expanded == [key \in DOMAIN addHeaders |-> expandEnvVars(e, addHeaders[key])]
    IN  SetAll(replaced, expanded)

ProcessIncoming(e, hc, inHeader) ==
    processHeaders(e, inHeader, hc.stripIncoming, hc.replaceIncoming, hc.addUpstream)

ProcessOutgoing(e, hc, inHeader) ==
    processHeaders(e, inHeader, hc.stripOutgoing, hc.replaceOutgoing, hc.addDownstream)

----------------------------------------------------------------------------
(* net/url.Parse, for URLs without percent escapes and without userinfo.    *)

Digits == {"0","1","2","3","4","5","6","7","8","9"}
SchemeExtra == Digits \cup {"+", "-", "."}

\* getScheme, given the position k of the first character that ends the
\* scan (0 when the scan runs to the end): <<error, scheme, rest>>
getSchemeAt(rawURL, k) ==
    IF k = 0 THEN <<FALSE, <<>>, rawURL>>
    ELSE IF rawURL[k] = ":"
         THEN IF k = 1 THEN <<TRUE, <<>>, rawURL>>
              ELSE <<FALSE, SubSeq(rawURL, 1, k - 1), SubSeq(rawURL, k + 1, Len(rawURL))>>
    ELSE <<FALSE, <<>>, rawURL>>

getScheme(rawURL) ==
    getSchemeAt(rawURL,
                LeastOr({i \in 1..Len(rawURL) :
                            ~ IsLetter(rawURL[i]) /\ ~ (i > 1 /\ rawURL[i] \in SchemeExtra)}, 0))

URLError == [err |-> TRUE, scheme |-> <<>>, opaque |-> <<>>, host |-> <<>>,
             path |-> <<>>, rawQuery |-> <<>>, fragment |-> <<>>]

URLEmpty == [err |-> FALSE, scheme |-> <<>>, opaque |-> <<>>, host |-> <<>>,
             path |-> <<>>, rawQuery |-> <<>>, fragment |-> <<>>]

\* parse: the authority runs to the first "/" at position i, the path follows.
parseHost(url, authority, i) ==
    IF i = -1 THEN [url EXCEPT !.host = authority]
    ELSE [url EXCEPT !.host = Upto(authority, i), !.path = From(authority, i)]

\* parse: what follows the scheme and precedes the query.
parsePath(url, rest) ==
    IF ~ HasPrefix(rest, <<"/">>) /\ url.scheme # <<>>
    THEN [url EXCEPT !.opaque = rest]
    ELSE IF ~ HasPrefix(rest, <<"/">>) /\ Contains(Cut(rest, <<"/">>).before, <<":">>)
    THEN URLError
    ELSE IF (url.scheme # <<>> \/ ~ HasPrefix(rest, <<"/","/","/">>))
                /\ HasPrefix(rest, <<"/","/">>)
    THEN parseHost(url, From(rest, 2), Index(From(rest, 2), <<"/">>))
    ELSE [url EXCEPT !.path = rest]

\* parse: the result gs of getScheme is split at the first "?".
parseScheme(gs) ==
    IF gs[1] THEN URLError
    ELSE parsePath([URLEmpty EXCEPT !.scheme = ToLower(gs[2]),
                                    !.rawQuery = Cut(gs[3], <<"?">>).after],
                   Cut(gs[3], <<"?">>).before)

parse(rawURL) == parseScheme(getScheme(rawURL))

setFragment(url, frag) == IF url.err THEN url ELSE [url EXCEPT !.fragment = frag]

\* url.Parse: the fragment is cut off first, the rest is parsed.
URLParse(rawURL) ==
    setFragment(parse(Cut(rawURL, <<"#">>).before), Cut(rawURL, <<"#">>).after)

IsAbs(u) == u.scheme # <<>>

----------------------------------------------------------------------------
(* Redirect rewriting                                                       *)

\* buildProxyURL: "Ensure path starts with /"
ensureSlash(path) ==
    IF path # <<>> /\ ~ HasPrefix(path, <<"/">>) THEN <<"/">> \o path ELSE path

\* buildProxyURL: "Add path (but avoid double slashes)"
joinPath(proxyURL, path) ==
    IF HasSuffix(proxyURL, <<"/">>) /\ HasPrefix(path, <<"/">>) THEN proxyURL \o Tail(path)
    ELSE IF ~ HasSuffix(proxyURL, <<"/">>) /\ ~ HasPrefix(path, <<"/">>)
    THEN proxyURL \o <<"/">> \o path
    ELSE proxyURL \o path

\* buildProxyURL: "Add query string", "Add fragment"
addQueryFragment(proxyURL, query, fragment) ==
    (IF query # <<>> THEN proxyURL \o <<"?">> \o query ELSE proxyURL)
        \o (IF fragment # <<>> THEN <<"#">> \o fragment ELSE <<>>)

\* buildProxyURL once scheme and host are settled.
buildFrom(scheme, host, route, path, query, fragment) ==
    addQueryFragment(
        joinPath((IF scheme = <<>> THEN Https ELSE scheme) \o <<":","/","/">> \o host
                    \o route.pathPrefix,
                 ensureSlash(IF route.upstreamPathPrefix # <<>>
                             THEN TrimPrefix(path, route.upstreamPathPrefix) ELSE path)),
        query, fragment)

\* buildProxyURL with the parsed RedirectBaseURL.
buildWithBase(baseURL, scheme, host, route, path, query, fragment) ==
    IF ~ baseURL.err THEN buildFrom(baseURL.scheme, baseURL.host, route, path, query, fragment)
    ELSE buildFrom(scheme, host, route, path, query, fragment)

\* buildProxyURL without the base URL and without the route's path prefix.
buildProxyURLNoPrefix(scheme, host, route, path, query, fragment) ==
    addQueryFragment((IF scheme = <<>> THEN Https ELSE scheme) \o <<":","/","/">> \o host
                        \o ensureSlash(path),
                     query, fragment)

\* buildProxyURL(scheme, host, route, path, query, fragment)
buildProxyURL(scheme, host, route, path, query, fragment) ==
    IF route.redirectBaseURL # <<>>
    THEN buildWithBase(URLParse(route.redirectBaseURL), scheme, host, route, path, query,
                       fragment)
    ELSE buildFrom(scheme, host, route, path, query, fragment)

\* RewriteRedirect: the Location is returned as it came.
unchanged(location, type) == [location |-> location, rewritten |-> FALSE, type |-> type]

\* The Location rebuilt on the host it already names.
viaRouteSameHost(locationURL, incomingHost, incomingScheme, route, type) ==
    [location |-> buildProxyURL(locationURL.scheme, locationURL.host,
                                [route EXCEPT !.redirectBaseURL = <<>>], locationURL.path,
                                locationURL.rawQuery, locationURL.fragment),
     rewritten |-> TRUE, type |-> type]

\* RewriteRedirect: the Location is rebuilt to pass through the given route.
viaRoute(locationURL, incomingHost, incomingScheme, route, type) ==
    [location |-> buildProxyURL(incomingScheme, incomingHost, route, locationURL.path,
                                locationURL.rawQuery, locationURL.fragment),
     rewritten |-> TRUE, type |-> type]

\* RewriteRedirect: the indexes of the routes whose upstream parses and has
\* the given host.
knownRoutes(rts, host) ==
    {i \in 1..Len(rts) :
        ~ URLParse(rts[i].upstream).err /\ URLParse(rts[i].upstream).host = host}

\* RewriteRedirect: the loop over the routes takes the first known one.
rewriteKnown(location, locationURL, incomingHost, incomingScheme, rts, known) ==
    IF known # {}
    THEN viaRoute(locationURL, incomingHost, incomingScheme, rts[LeastOr(known, 0)],
                  "external_known")
    ELSE unchanged(location, "external_unknown")

\* RewriteRedirect with the two URLs parsed.
rewriteParsed(location, locationURL, upstreamURL, incomingHost, incomingScheme, rts, route) ==
    IF locationURL.err THEN unchanged(location, "invalid_url")
    ELSE IF ~ IsAbs(locationURL) THEN unchanged(location, "relative")
    ELSE IF upstreamURL.err THEN unchanged(location, "invalid_upstream")
    ELSE IF locationURL.host = upstreamURL.host
    THEN viaRoute(locationURL, incomingHost, incomingScheme, route, "internal")
    ELSE rewriteKnown(location, locationURL, incomingHost, incomingScheme, rts,
                      knownRoutes(rts, locationURL.host))

\* RewriteRedirect(location, incomingHost, incomingScheme, routes, currentRoute)
RewriteRedirect(location, incomingHost, incomingScheme, rts, currentRoute) ==
    rewriteParsed(location, URLParse(location), URLParse(currentRoute.upstream),
                  incomingHost, incomingScheme, rts, currentRoute)

\* isRedirect(statusCode)
isRedirect(statusCode) == statusCode \in {301, 302, 303, 307, 308}

----------------------------------------------------------------------------
(* Route                                                                    *)

\* Route.Match
Match(route, path) == HasPrefix(path, route.pathPrefix)

\* Route.shouldStripHeader
shouldStripHeader(route, headerName) ==
    \E i \in 1..Len(route.headers.stripIncoming) :
        matchesPattern(headerName, route.headers.stripIncoming[i])

RECURSIVE DelEach(_, _)
DelEach(h, names) ==
    IF names = <<>> THEN h ELSE DelEach(HeaderDel(h, names[1]), Tail(names))

TrimEach(parts) == [i \in 1..Len(parts) |-> TrimSpace(parts[i])]

\* removeHopByHopHeaders: the headers named in the value of Connection.
removeListed(header, connections) ==
    IF connections # <<>> THEN DelEach(header, TrimEach(Split(connections, <<",">>)))
    ELSE header

\* removeHopByHopHeaders: the fixed list is deleted first, the Connection
\* header is read afterwards.
removeHopByHopHeaders(header) ==
    removeListed(DelEach(header, hopByHopHeaders),
                 HeaderGet(DelEach(header, hopByHopHeaders), Connection))

\* The path with its slashes left alone.
keepDoubleSlash(path) == path

\* director: "Clean up double slashes"
dropDoubleSlash(path) == IF HasPrefix(path, <<"/","/">>) THEN Tail(path) ELSE path

\* The path rewrite applied whether or not upstreamPathPrefix is set.
rewritePathAlways(route, path) ==
    dropDoubleSlash(route.upstreamPathPrefix \o TrimPrefix(path, route.pathPrefix))

\* director: "Rewrite path if upstream path prefix is configured"
rewritePath(route, path) ==
    IF route.upstreamPathPrefix # <<>>
    THEN dropDoubleSlash(route.upstreamPathPrefix \o TrimPrefix(path, route.pathPrefix))
    ELSE path

\* director: the Del("X-Forwarded-For") at its end.
stripForwardedFor(route, header) ==
    IF shouldStripHeader(route, XForwardedFor) THEN HeaderDel(header, XForwardedFor)
    ELSE header

\* director: the target, the path and the Host, with the headers processed.
setTarget(up, route, r, header) ==
    [scheme |-> up.scheme, urlHost |-> up.host, path |-> rewritePath(route, r.path),
     host |-> IF route.preserveHost THEN r.host ELSE up.host,
     header |-> header]

\* Route.director, applied to the clone of the inbound request.
director(e, route, r) ==
    setTarget(URLParse(route.upstream), route, r,
              stripForwardedFor(route,
                  removeHopByHopHeaders(ProcessIncoming(e, route.headers, r.header))))

\* What httputil.ReverseProxy does to the outbound request after the
\* director has returned: the client address is appended to X-Forwarded-For.
CommaSpace == <<",", " ">>

RECURSIVE Join(_, _)
Join(values, sep) ==
    IF Len(values) = 0 THEN <<>>
    ELSE IF Len(values) = 1 THEN values[1]
    ELSE values[1] \o sep \o Join(Tail(values), sep)

addXForwardedFor(r, out) ==
    LET prior == IF XForwardedFor \in DOMAIN out.header THEN out.header[XForwardedFor] ELSE <<>>
        value == IF Len(prior) > 0 THEN Join(prior, CommaSpace) \o CommaSpace \o r.clientIP
                 ELSE r.clientIP
    IN  [out EXCEPT !.header = HeaderSet(@, XForwardedFor, value)]

\* headerStrippingTransport.RoundTrip, up to the call of the base transport.
RoundTrip(route, out) ==
    LET again == \E i \in 1..Len(route.headers.stripIncoming) :
                    route.headers.stripIncoming[i] = XForwardedStar
        kept == {key \in DOMAIN out.header : ~ matchesPattern(key, XForwardedStar)}
    IN  IF again THEN [out EXCEPT !.header = [key \in kept |-> out.header[key]]] ELSE out

IndexOrders(n) == {f \in [1..n -> 1..n] : \A i, j \in 1..n : i # j => f[i] # f[j]}

\* New without the sort: the routes stay in the order of the Config.
sortRoutesKeepOrder(rs) == {rs}

\* sortRoutesByPrefixLength: sort.Slice is not stable, so every arrangement
\* in descending order of prefix length is a possible result.
sortRoutesByPrefixLength(rs) ==
    {[i \in 1..Len(rs) |-> rs[f[i]]] : f \in
        {g \in IndexOrders(Len(rs)) :
            \A i, j \in 1..Len(rs) :
                i < j => Len(rs[g[i]].pathPrefix) >= Len(rs[g[j]].pathPrefix)}}

\* The loop falling back to the first route when none matches.
findRouteOrFirst(rts, path) == LeastOr({i \in 1..Len(rts) : Match(rts[i], path)}, 1)

\* The loop of ServeHTTP that finds matchedRoute: the index of the first
\* route of the list that matches, 0 when none does.
findRoute(rts, path) == LeastOr({i \in 1..Len(rts) : Match(rts[i], path)}, 0)

----------------------------------------------------------------------------
(* Configurations, environments and inputs of the model                     *)

\* Durations are in seconds; the clock of the model advances by TickSeconds.
TickSeconds == 15

\* Defaults set by Config.ApplyDefaults.
DefaultRouteTimeout == 30
DefaultResponseHeaderTimeout == 30

\* DefaultTransportConfig()
DefaultTransportConfig ==
    [maxIdleConns |-> 100, maxIdleConnsPerHost |-> 10, idleConnTimeout |-> 90,
     dialTimeout |-> 10, tlsHandshakeTimeout |-> 10,
     responseHeaderTimeout |-> DefaultResponseHeaderTimeout, expectContinueTimeout |-> 1,
     disableKeepAlives |-> FALSE, disableCompression |-> FALSE]

\* A TLSConfig with nothing set.
NoTLS == [certFile |-> "", keyFile |-> "", caFile |-> "", minVersion |-> ""]

NoMap == [x \in {} |-> <<>>]

EnvKey == <<"K">>
Env0 == [x \in {EnvKey} |-> <<"s","3">>]

RouteA ==
    [name |-> "a", pathPrefix |-> <<"/","a">>, upstream |-> <<"h","t","t","p",":","/","/","u","1">>,
     upstreamPathPrefix |-> <<>>, preserveHost |-> FALSE,
     timeout |-> DefaultRouteTimeout, tlsMode |-> "terminate",
     rewriteRedirects |-> TRUE, redirectBaseURL |-> <<>>,
     headers |-> [stripIncoming |-> <<XForwardedStar, Via>>,
                  replaceIncoming |-> NoMap,
                  addUpstream |-> [x \in {XApiKey} |-> <<"$","{","K","}">>],
                  stripOutgoing |-> <<Server>>,
                  replaceOutgoing |-> NoMap,
                  addDownstream |-> NoMap]]

RouteB ==
    [name |-> "b", pathPrefix |-> <<"/","a","/","b">>, upstream |-> <<"h","t","t","p",":","/","/","u","2">>,
     upstreamPathPrefix |-> <<"/","u","p">>, preserveHost |-> FALSE,
     timeout |-> TickSeconds, tlsMode |-> "terminate",
     rewriteRedirects |-> FALSE, redirectBaseURL |-> <<>>,
     headers |-> [stripIncoming |-> <<XForwardedFor>>,
                  replaceIncoming |-> [x \in {UserAgent} |-> <<"m">>],
                  addUpstream |-> NoMap,
                  stripOutgoing |-> <<Server>>,
                  replaceOutgoing |-> NoMap,
                  addDownstream |-> NoMap]]

RouteC ==
    [name |-> "c", pathPrefix |-> <<"/","b">>, upstream |-> <<"h","t","t","p","s",":","/","/","u","3">>,
     upstreamPathPrefix |-> <<>>, preserveHost |-> TRUE,
     timeout |-> DefaultRouteTimeout, tlsMode |-> "terminate", rewriteRedirects |-> TRUE,
     redirectBaseURL |-> <<"h","t","t","p","s",":","/","/","p","x">>,
     headers |-> [stripIncoming |-> <<<<"x","-","*">>>>,
                  replaceIncoming |-> NoMap,
                  addUpstream |-> NoMap,
                  stripOutgoing |-> <<Location, Server>>,
                  replaceOutgoing |-> NoMap,
                  addDownstream |-> [x \in {Via} |-> <<"p","x">>]]]

RouteConfigs == {RouteA, RouteB, RouteC}

\* The route lists Config.Validate accepts: at least one route, no two
\* routes with the same pathPrefix, in any order.
RouteLists ==
    UNION {{rs \in [1..n -> RouteConfigs] :
                \A i, j \in 1..n : i # j => rs[i].pathPrefix # rs[j].pathPrefix}
           : n \in 1..MaxRoutes}

Configs ==
    [routes : RouteLists,
     transport : {DefaultTransportConfig},
     tls : {NoTLS},
     metrics : [enabled : BOOLEAN]]

RequestPaths == {<<"/","a">>, <<"/","a","/","b">>, <<"/","a","/","b","/","c">>, <<"/","a","b">>, <<"/","b","/","x">>, <<"/","c">>}

\* Inbound header maps, each with the TLS state of the connection it came on.
RequestHeaders ==
    {[header |-> (UserAgent :> << <<"u","a">> >>), tls |-> FALSE],
     [header |-> (UserAgent :> << <<"u","a">> >>), tls |-> TRUE],
     [header |-> (XForwardedFor :> << <<"9">> >>) @@ (XForwardedProto :> << Https >>)
                    @@ (Via :> << <<"v">> >>) @@ (UserAgent :> << <<"u","a">> >>),
      tls |-> FALSE],
     [header |-> (Connection :> << <<"c","l","o","s","e",","," ","X","-","C","u","s","t","o","m">> >>) @@ (XCustom :> << <<"c">> >>)
                    @@ (KeepAlive :> << <<"k">> >>),
      tls |-> FALSE],
     [header |-> (Te :> << <<"t">> >>) @@ (Upgrade :> << <<"w">> >>) @@ (TransferEncoding :> << <<"e">> >>)
                    @@ (ProxyAuthorization :> << <<"p">> >>) @@ (XForwardedProto :> << Http >>),
      tls |-> TRUE]}

Requests ==
    {[path |-> p, header |-> h.header, host |-> <<"p","x">>, tls |-> h.tls, clientIP |-> <<"i","p">>] :
        p \in RequestPaths, h \in RequestHeaders}

LocInternal == <<"h","t","t","p",":","/","/","u","1","/","x">>
LocKnown == <<"h","t","t","p","s",":","/","/","u","2","/","u","p","/","y","?","q","#","f">>
LocUnknown == <<"h","t","t","p","s",":","/","/","e","x","/","z">>
LocRelative == <<"/","r","e","l">>
LocInvalid == <<":","b","a","d">>
LocSlashes == <<"h","t","t","p","s",":","/","/","u","3","/","/","x">>
Locations == {LocInternal, LocKnown, LocUnknown, LocRelative, LocInvalid, LocSlashes, <<>>}

ServerOnly == (Server :> << <<"u","p">> >>)

UpstreamResponses ==
    {[status |-> 302, header |-> (Location :> <<l>>) @@ ServerOnly] : l \in Locations}
    \cup {[status |-> 301, header |-> (Location :> <<LocKnown>>)],
          [status |-> 200, header |-> (Location :> <<LocKnown>>) @@ ServerOnly],
          [status |-> 200, header |-> ServerOnly],
          [status |-> 500, header |-> EmptyHeader]}

TransportErrors == {"dial_timeout", "tls_timeout", "connect", "tls"}

----------------------------------------------------------------------------
(* Response writers.  A writer chain is a record                            *)
(*   w : the fields of the two wrappers,                                    *)
(*   h : the header map of the underlying http.ResponseWriter,              *)
(*   c : what the underlying writer has sent to the client.                 *)

NoClient == [wroteHeader |-> FALSE, status |-> 0, header |-> EmptyHeader,
             body |-> 0, calls |-> 0]

NoWriters == [redirect |-> FALSE, incomingHost |-> <<>>, incomingScheme |-> <<>>,
              rwWroteHeader |-> FALSE, statusCode |-> 200, swWroteHeader |-> FALSE]

\* The underlying http.ResponseWriter: the first WriteHeader sends the status
\* line with the headers as they are at that moment; later calls send nothing.
underWriteHeader(W, statusCode) ==
    IF W.c.wroteHeader THEN [W EXCEPT !.c.calls = @ + 1]
    ELSE [W EXCEPT !.c = [wroteHeader |-> TRUE, status |-> statusCode, header |-> W.h,
                          body |-> @.body, calls |-> @.calls + 1]]

underWrite(W) ==
    [(IF W.c.wroteHeader THEN W ELSE underWriteHeader(W, 200)) EXCEPT !.c.body = @ + 1]

\* handleRedirectRewrite: w.Header().Set("Location", rewrittenLocation) when rewritten.
setRewritten(W, result) ==
    IF result.rewritten THEN [W EXCEPT !.h = HeaderSet(@, Location, result.location)] ELSE W

\* handleRedirectRewrite with the Location header read.
applyRewrite(W, location, rts, route) ==
    IF location = <<>> THEN W
    ELSE setRewritten(W, RewriteRedirect(location, W.w.incomingHost, W.w.incomingScheme,
                                         rts, route))

\* handleRedirectRewrite deleting the Location header.
handleRedirectRewriteDropping(W, rts, route) == [W EXCEPT !.h = HeaderDel(@, Location)]

\* redirectRewritingResponseWriter.handleRedirectRewrite
handleRedirectRewrite(W, rts, route) == applyRewrite(W, HeaderGet(W.h, Location), rts, route)

\* redirectRewritingResponseWriter.applyHeaderManipulations
applyHeaderManipulations(W, e, route) ==
    [W EXCEPT !.h = ProcessOutgoing(e, route.headers, W.h)]

\* WriteHeader that rewrites Location whatever the status is.
rewriteWhateverStatus(W, rts, route, statusCode) == handleRedirectRewrite(W, rts, route)

\* WriteHeader: "if isRedirect(statusCode) { w.handleRedirectRewrite() }"
rewriteIfRedirect(W, rts, route, statusCode) ==
    IF isRedirect(statusCode) THEN handleRedirectRewrite(W, rts, route) ELSE W

\* WriteHeader that does not pass the status on to the wrapped writer.
rwWriteHeaderNoForward(W, e, rts, route, statusCode) ==
    IF W.w.rwWroteHeader THEN W
    ELSE applyHeaderManipulations(
            rewriteIfRedirect([W EXCEPT !.w.rwWroteHeader = TRUE], rts, route, statusCode),
            e, route)

\* WriteHeader that applies the outgoing header rules before the redirect rewrite.
rwWriteHeaderTransformFirst(W, e, rts, route, statusCode) ==
    IF W.w.rwWroteHeader THEN W
    ELSE underWriteHeader(
            rewriteIfRedirect(
                applyHeaderManipulations([W EXCEPT !.w.rwWroteHeader = TRUE], e, route),
                rts, route, statusCode),
            statusCode)

\* redirectRewritingResponseWriter.WriteHeader
rwWriteHeader(W, e, rts, route, statusCode) ==
    IF W.w.rwWroteHeader THEN W
    ELSE underWriteHeader(
            applyHeaderManipulations(
                rewriteIfRedirect([W EXCEPT !.w.rwWroteHeader = TRUE], rts, route,
                                  statusCode),
                e, route),
            statusCode)

\* redirectRewritingResponseWriter.Write
rwWrite(W, e, rts, route) ==
    underWrite(IF W.w.rwWroteHeader THEN W ELSE rwWriteHeader(W, e, rts, route, 200))

\* statusCapturingResponseWriter.WriteHeader: the call on the wrapped writer.
swForward(W, e, rts, route, statusCode) ==
    IF W.w.redirect THEN rwWriteHeader(W, e, rts, route, statusCode)
    ELSE underWriteHeader(W, statusCode)

\* statusCapturingResponseWriter.WriteHeader
swWriteHeader(W, e, rts, route, statusCode) ==
    swForward(IF W.w.swWroteHeader THEN W
              ELSE [W EXCEPT !.w.statusCode = statusCode, !.w.swWroteHeader = TRUE],
              e, rts, route, statusCode)

\* statusCapturingResponseWriter.Write: the call on the wrapped writer.
swWriteBody(W, e, rts, route) ==
    IF W.w.redirect THEN rwWrite(W, e, rts, route) ELSE underWrite(W)

\* statusCapturingResponseWriter.Write
swWrite(W, e, rts, route) ==
    swWriteBody(IF W.w.swWroteHeader THEN W ELSE swWriteHeader(W, e, rts, route, 200),
                e, rts, route)

----------------------------------------------------------------------------
(* The request handler                                                      *)

NoRequest == [path |-> <<>>, header |-> EmptyHeader, host |-> <<>>, tls |-> FALSE,
              clientIP |-> <<>>]
NoOutreq == [scheme |-> <<>>, urlHost |-> <<>>, path |-> <<>>, host |-> <<>>,
             header |-> EmptyHeader]
NoResponse == [status |-> 0, header |-> EmptyHeader]
NoUpstream == [calls |-> 0, req |-> NoOutreq, err |-> "none", resp |-> NoResponse]
\* A prometheus.CounterVec with no child: label values -> count.
NoCounts == [x \in {} |-> 0]
NoMetrics == [requestErrors |-> NoCounts, requests |-> NoCounts, responses |-> NoCounts,
              upstreamErrors |-> NoCounts]

Chain == [w |-> writers, h |-> respHeader, c |-> client]

\* r.Method: the requests of the model are all GET.
Method == "GET"

\* "if p.config.Metrics.Enabled { vec.WithLabelValues(labels...).Inc() }"
Inc(vec, labels) ==
    IF ~ config.metrics.enabled THEN vec
    ELSE IF labels \in DOMAIN vec THEN [vec EXCEPT ![labels] = @ + 1]
    ELSE vec @@ (labels :> 1)

\* The transport takes an idle connection to the upstream when it has one and
\* dials a new one when it has none.
getConn(idle) == IF idle > 0 THEN idle - 1 ELSE 0

\* The response has been read to its end: the connection goes back to the
\* pool (keep-alives are on); after a failed round trip there is none.
putIdleConn(idle, err) == IF err = "none" THEN idle + 1 ELSE idle

Init ==
    /\ config \in Configs
    /\ routes \in sortRoutesByPrefixLength(config.routes)
    /\ env = Env0
    /\ pc = "idle"
    /\ served = 0
    /\ req = NoRequest
    /\ matched = 0
    /\ outreq = NoOutreq
    /\ upstream = NoUpstream
    /\ elapsed = 0
    /\ writers = NoWriters
    /\ respHeader = EmptyHeader
    /\ client = NoClient
    /\ metrics = NoMetrics
    /\ idleConns = 0

\* ServeHTTP when no route matches: http.Error(w, "No route found", 404).
ServeHTTPNoRoute(r) ==
    /\ pc = "idle"
    /\ served < MaxRequests
    /\ findRoute(routes, r.path) = 0
    /\ req' = r
    /\ matched' = 0
    /\ metrics' = [metrics EXCEPT !.requestErrors = Inc(@, <<"none", Method>>)]
    /\ client' = underWrite(underWriteHeader(Chain, 404)).c
    /\ pc' = "done"
    /\ UNCHANGED <<idleConns, config, routes, env, served, outreq, upstream, elapsed, writers, respHeader>>

\* The scheme ServeHTTP hands to the redirect writer.
incomingScheme(r) ==
    LET forwardedProto == HeaderGet(r.header, XForwardedProto)
    IN  IF forwardedProto # <<>> THEN forwardedProto
        ELSE IF r.tls THEN Https ELSE Http

\* ServeHTTP when a route matches, up to the moment the wrapped transport
\* has handed the request to the base transport.
ServeHTTPForward(r) ==
    /\ pc = "idle"
    /\ served < MaxRequests
    /\ \E i \in {findRoute(routes, r.path)} :
          /\ i # 0
          /\ matched' = i
          /\ writers' = [NoWriters EXCEPT !.redirect = routes[i].rewriteRedirects,
                                          !.incomingHost = r.host,
                                          !.incomingScheme = incomingScheme(r)]
          /\ \E out \in {director(env, routes[i], r)} :
                /\ outreq' = out
                /\ upstream' = [upstream EXCEPT
                                    !.calls = @ + 1,
                                    !.req = RoundTrip(routes[i], addXForwardedFor(r, out))]
          /\ metrics' = [metrics EXCEPT !.requests = Inc(@, <<routes[i].name, Method>>)]
    /\ req' = r
    /\ elapsed' = 0
    /\ idleConns' = getConn(idleConns)
    /\ pc' = "awaiting"
    /\ UNCHANGED <<config, routes, env, served, respHeader, client>>

\* Time passes while the transport waits for the response headers.
Tick ==
    /\ pc = "awaiting"
    /\ elapsed < config.transport.responseHeaderTimeout
    /\ elapsed' = elapsed + TickSeconds
    /\ UNCHANGED <<idleConns, config, routes, env, pc, served, req, matched, outreq, upstream,
                   writers, respHeader, client, metrics>>

\* The upstream answers and a redirect is followed with a second round trip.
UpstreamRespondsFollowing(resp) ==
    /\ pc = "awaiting"
    /\ upstream' = [upstream EXCEPT !.resp = resp,
                                    !.calls = IF isRedirect(resp.status) THEN @ + 1 ELSE @]
    /\ \E W \in {swWriteHeader([Chain EXCEPT !.h = resp.header], env, routes,
                                routes[matched], resp.status)} :
          /\ writers' = W.w
          /\ respHeader' = W.h
          /\ client' = W.c
    /\ elapsed' = 0
    /\ pc' = "responding"
    /\ UNCHANGED <<idleConns, config, routes, env, served, req, matched, outreq, metrics>>

\* The upstream answers: ReverseProxy copies the response headers into
\* rw.Header() and calls rw.WriteHeader(res.StatusCode).
UpstreamResponds(resp) ==
    /\ pc = "awaiting"
    /\ upstream' = [upstream EXCEPT !.resp = resp]
    /\ \E W \in {swWriteHeader([Chain EXCEPT !.h = resp.header], env, routes,
                                routes[matched], resp.status)} :
          /\ writers' = W.w
          /\ respHeader' = W.h
          /\ client' = W.c
    /\ elapsed' = 0    \* the timer is stopped
    /\ pc' = "responding"
    /\ UNCHANGED <<idleConns, config, routes, env, served, req, matched, outreq, metrics>>

\* ReverseProxy copies the response body to rw.
CopyBody ==
    /\ pc = "responding"
    /\ upstream.err = "none"
    /\ \E W \in {swWrite(Chain, env, routes, routes[matched])} :
          /\ writers' = W.w
          /\ respHeader' = W.h
          /\ client' = W.c
    /\ pc' = "copied"
    /\ UNCHANGED <<idleConns, config, routes, env, served, req, matched, outreq, upstream, elapsed, metrics>>

\* The status ReverseProxy's default error handler answers with; the routes
\* are built without an ErrorHandler.
errorStatus(err) == 502

\* The round trip returns an error.
RoundTripFails(err) ==
    /\ upstream' = [upstream EXCEPT !.err = err]
    /\ \E W \in {swWriteHeader(Chain, env, routes, routes[matched], errorStatus(err))} :
          /\ writers' = W.w
          /\ respHeader' = W.h
          /\ client' = W.c
    /\ elapsed' = 0    \* the timer is stopped
    /\ pc' = "responding"
    /\ UNCHANGED <<idleConns, config, routes, env, served, req, matched, outreq, metrics>>

\* Dial or TLS handshake fails or times out (Dialer.Timeout, TLSHandshakeTimeout).
TransportError(err) ==
    /\ pc = "awaiting"
    /\ elapsed = 0
    /\ RoundTripFails(err)

\* Transport.ResponseHeaderTimeout expires.
ResponseHeaderTimeout ==
    /\ pc = "awaiting"
    /\ config.transport.responseHeaderTimeout > 0
    /\ elapsed >= config.transport.responseHeaderTimeout
    /\ RoundTripFails("header_timeout")

\* ServeHTTP counting every response under the status 200.
FinishStatusOK ==
    /\ pc \in {"responding", "copied"}
    /\ metrics' = [metrics EXCEPT !.responses = Inc(@, <<routes[matched].name, Method, 200>>)]
    /\ idleConns' = putIdleConn(idleConns, upstream.err)
    /\ pc' = "done"
    /\ UNCHANGED <<config, routes, env, served, req, matched, outreq, upstream, elapsed,
                   writers, respHeader, client>>

\* reverseProxy.ServeHTTP has returned: ServeHTTP records the metrics.
Finish ==
    /\ pc \in {"responding", "copied"}
    /\ metrics' = [metrics EXCEPT !.responses =
                        Inc(@, <<routes[matched].name, Method, writers.statusCode>>)]
    /\ idleConns' = putIdleConn(idleConns, upstream.err)
    /\ pc' = "done"
    /\ UNCHANGED <<config, routes, env, served, req, matched, outreq, upstream, elapsed,
                   writers, respHeader, client>>

\* ServeHTTP returns; the per-request state is dropped.
Return ==
    /\ pc = "done"
    /\ served' = served + 1
    /\ pc' = "idle"
    /\ req' = NoRequest
    /\ matched' = 0
    /\ outreq' = NoOutreq
    /\ upstream' = NoUpstream
    /\ elapsed' = 0
    /\ writers' = NoWriters
    /\ respHeader' = EmptyHeader
    /\ client' = NoClient
    /\ UNCHANGED <<idleConns, config, routes, env, metrics>>

Next ==
    \/ \E r \in Requests : ServeHTTPNoRoute(r)
    \/ \E r \in Requests : ServeHTTPForward(r)
    \/ Tick
    \/ \E resp \in UpstreamResponses : UpstreamResponds(resp)
    \/ CopyBody
    \/ \E err \in TransportErrors : TransportError(err)
    \/ ResponseHeaderTimeout
    \/ Finish
    \/ Return

Spec == Init /\ [][Next]_vars

----------------------------------------------------------------------------
(* Construction: Config.Validate and New                                    *)

RECURSIVE checkLoop(_, _, _)

\* checkEnvVars: varName is checked, the scan goes on at endIdx + 1.
checkVar(e, value, endIdx, varName) ==
    IF varName = <<>> THEN "empty"
    ELSE IF varName \notin DOMAIN e THEN "unset"
    ELSE checkLoop(e, value, endIdx + 1)

\* checkEnvVars: endIdx := strings.Index(value[idx:], "}"), relative to idx
checkClose(e, value, idx, endIdx) ==
    IF endIdx = -1 THEN "unclosed"
    ELSE checkVar(e, value, endIdx + idx, SubSeq(value, idx + 3, endIdx + idx))

\* checkEnvVars: idx := strings.Index(value[start:], "${"), relative to start
checkOpen(e, value, start, idx) ==
    IF idx = -1 THEN "none"
    ELSE checkClose(e, value, idx + start, Index(From(value, idx + start), CloseBrace))

checkLoop(e, value, start) ==
    checkOpen(e, value, start, Index(From(value, start), DollarBrace))

\* checkEnvVars(key, value): "none" when it returns nil, else the kind of error.
checkEnvVars(e, value) == checkLoop(e, value, 0)

\* HeaderConfig.Validate that looks at no value.
HeaderConfigValidateNone(e, h) == "none"

\* HeaderConfig.Validate: the first failing value depends on the iteration
\* order of the maps, whether there is one does not.
HeaderConfigValidate(e, h) ==
    IF \E k \in DOMAIN h.addUpstream : checkEnvVars(e, h.addUpstream[k]) # "none"
    THEN "headers"
    ELSE IF \E k \in DOMAIN h.addDownstream : checkEnvVars(e, h.addDownstream[k]) # "none"
    THEN "headers"
    ELSE "none"

\* RouteConfig.Validate: the redirect base URL.
baseURLValidate(baseURL) ==
    IF baseURL.err THEN "redirect_base_url"
    ELSE IF baseURL.scheme = <<>> \/ baseURL.host = <<>> THEN "redirect_base_url"
    ELSE "none"

\* RouteConfig.Validate from the TLS mode on.
routeValidateRest(e, r) ==
    IF r.tlsMode # "" /\ r.tlsMode # "terminate" /\ r.tlsMode # "passthrough" THEN "tls_mode"
    ELSE IF r.redirectBaseURL # <<>> /\ baseURLValidate(URLParse(r.redirectBaseURL)) # "none"
    THEN "redirect_base_url"
    ELSE HeaderConfigValidate(e, r.headers)

\* RouteConfig.Validate: the upstream URL.
upstreamValidate(e, r, upstreamURL) ==
    IF upstreamURL.err THEN "upstream_url"
    ELSE IF upstreamURL.scheme # Http /\ upstreamURL.scheme # Https THEN "upstream_scheme"
    ELSE routeValidateRest(e, r)

\* RouteConfig.Validate
RouteConfigValidate(e, r) ==
    IF r.name = "" THEN "name"
    ELSE IF r.pathPrefix = <<>> THEN "path_prefix"
    ELSE IF ~ HasPrefix(r.pathPrefix, <<"/">>) THEN "path_prefix"
    ELSE IF r.upstream = <<>> THEN "upstream"
    ELSE upstreamValidate(e, r, URLParse(r.upstream))

\* Config.checkConflictingRoutes, without any check.
checkNoConflicts(c) == "none"

\* Config.checkConflictingRoutes
checkConflictingRoutes(c) ==
    IF \E i, j \in 1..Len(c.routes) : i < j /\ c.routes[i].pathPrefix = c.routes[j].pathPrefix
    THEN "conflict" ELSE "none"

\* The files of the host: path -> kind. os.Stat fails on any other path.
Files ==
    [x \in {"cert.pem", "key.pem", "ca.pem", "dir", "/dev/null"} |->
        IF x = "dir" THEN "dir" ELSE IF x = "/dev/null" THEN "device" ELSE "file"]

\* validateTLSFile(path, name)
validateTLSFile(path, name) ==
    IF path = "" THEN "none"
    ELSE IF path \notin DOMAIN Files THEN name
    ELSE IF Files[path] = "dir" THEN name
    ELSE "none"

\* parseTLSVersion(version)
parseTLSVersion(version) ==
    IF version \in {"1.0", "1.1", "1.2", "1.3"} THEN "none" ELSE "min_version"

\* TLSConfig.Validate
TLSConfigValidate(t) ==
    IF t.certFile # "" /\ t.keyFile = "" THEN "key_file missing"
    ELSE IF t.keyFile # "" /\ t.certFile = "" THEN "cert_file missing"
    ELSE IF validateTLSFile(t.certFile, "cert_file") # "none" THEN "cert_file"
    ELSE IF validateTLSFile(t.keyFile, "key_file") # "none" THEN "key_file"
    ELSE IF validateTLSFile(t.caFile, "ca_file") # "none" THEN "ca_file"
    ELSE IF t.minVersion # "" THEN parseTLSVersion(t.minVersion)
    ELSE "none"

\* Config.Validate: "Validate TLS configuration if provided"
tlsValidate(c) ==
    IF c.tls.certFile # "" \/ c.tls.keyFile # "" THEN TLSConfigValidate(c.tls) ELSE "none"

\* Config.Validate
ConfigValidate(e, c) ==
    IF Len(c.routes) = 0 THEN "no_routes"
    ELSE IF \E i \in 1..Len(c.routes) : RouteConfigValidate(e, c.routes[i]) # "none"
    THEN "route"
    ELSE IF checkConflictingRoutes(c) # "none" THEN "conflict"
    ELSE tlsValidate(c)

\* ApplyDefaults: the defaults of one route.
routeDefaults(r) ==
    [r EXCEPT !.tlsMode = IF @ = "" THEN "terminate" ELSE @,
              !.timeout = IF @ = 0 THEN DefaultRouteTimeout ELSE @]

\* Config.ApplyDefaults: the transport and the routes; the defaults of the
\* metrics and logger sections are strings the model does not use.
ApplyDefaults(c) ==
    [c EXCEPT !.transport = IF @.maxIdleConns = 0 THEN DefaultTransportConfig ELSE @,
              !.routes = [i \in 1..Len(@) |-> routeDefaults(@[i])]]

\* Add-header templates handed to New.
Templates ==
    {<<"$","{","K","}">>, <<"$","{">>, <<"$","{","}">>, <<"$","{","U","}">>,
     <<"$","{","E","}">>, <<"a","$","{","K","}","$","{","U","}">>, <<"v">>}

\* Environments: K is set; E is unset, or set to the empty string.
EnvE == (EnvKey :> <<"s","3">>) @@ (<<"E">> :> <<>>)
Envs == {Env0, EnvE}

\* Route configurations handed to New, valid and invalid.
NewRouteConfigs ==
    {RouteA, RouteB, RouteC,
     [RouteB EXCEPT !.pathPrefix = RouteA.pathPrefix],
     [RouteA EXCEPT !.name = ""],
     [RouteA EXCEPT !.pathPrefix = <<"a">>],
     [RouteA EXCEPT !.upstream = <<"f","t","p",":","/","/","u","1">>],
     [RouteC EXCEPT !.redirectBaseURL = <<"/","p","x">>]}
    \cup {[RouteA EXCEPT !.headers.addUpstream = (XApiKey :> t)] : t \in Templates}
    \cup {[RouteC EXCEPT !.headers.addDownstream = (Via :> t)] : t \in Templates}

MaxNewRoutes == 2

NewConfigs ==
    [routes : UNION {[1..n -> NewRouteConfigs] : n \in 0..MaxNewRoutes},
     transport : {DefaultTransportConfig},
     tls : {NoTLS},
     metrics : [enabled : {FALSE}]]

\* Before New is called.
InitNew ==
    /\ config \in NewConfigs
    /\ env \in Envs
    /\ routes = <<>>
    /\ pc = "new"
    /\ served = 0
    /\ req = NoRequest
    /\ matched = 0
    /\ outreq = NoOutreq
    /\ upstream = NoUpstream
    /\ elapsed = 0
    /\ writers = NoWriters
    /\ respHeader = EmptyHeader
    /\ client = NoClient
    /\ metrics = NoMetrics
    /\ idleConns = 0

\* New: validation fails, a nil Proxy is returned with the error.
NewFails ==
    /\ pc = "new"
    /\ config' = ApplyDefaults(config)
    /\ ConfigValidate(env, config') # "none"
    /\ pc' = "failed"
    /\ UNCHANGED <<idleConns, routes, env, served, req, matched, outreq, upstream, elapsed,
                   writers, respHeader, client, metrics>>

\* New: the routes are created and sorted, the Proxy is returned.
NewSucceeds ==
    /\ pc = "new"
    /\ config' = ApplyDefaults(config)
    /\ ConfigValidate(env, config') = "none"
    /\ routes' \in sortRoutesByPrefixLength(config'.routes)
    /\ pc' = "idle"
    /\ UNCHANGED <<idleConns, env, served, req, matched, outreq, upstream, elapsed,
                   writers, respHeader, client, metrics>>

NextNew == NewFails \/ NewSucceeds

SpecNew == InitNew /\ [][NextNew]_vars

----------------------------------------------------------------------------
(* New on configurations with a TLS section                                 *)

\* TLS sections handed to New: files that exist, are missing, are a directory
\* or a device; versions that exist and one that does not.
TLSConfigs ==
    [certFile : {"", "cert.pem", "missing", "dir"},
     keyFile : {"", "key.pem", "missing"},
     caFile : {"", "ca.pem", "missing", "/dev/null"},
     minVersion : {"", "1.2", "1.4"}]

\* A valid route list and one with two routes on the same prefix.
TLSNewConfigs ==
    {[routes |-> rs, transport |-> DefaultTransportConfig, tls |-> t,
      metrics |-> [enabled |-> FALSE]] :
        rs \in {<<RouteA>>, <<RouteA, [RouteB EXCEPT !.pathPrefix = RouteA.pathPrefix]>>},
        t \in TLSConfigs}

InitTLS ==
    /\ config \in TLSNewConfigs
    /\ env = Env0
    /\ routes = <<>>
    /\ pc = "new"
    /\ served = 0
    /\ req = NoRequest
    /\ matched = 0
    /\ outreq = NoOutreq
    /\ upstream = NoUpstream
    /\ elapsed = 0
    /\ writers = NoWriters
    /\ respHeader = EmptyHeader
    /\ client = NoClient
    /\ metrics = NoMetrics
    /\ idleConns = 0

SpecTLS == InitTLS /\ [][NextNew]_vars

----------------------------------------------------------------------------
(* New on configurations that leave fields unset                            *)

\* Transport sections as the caller fills them in: each field set or left zero.
CallerTransports ==
    [maxIdleConns : {0, 50}, maxIdleConnsPerHost : {0, 5}, idleConnTimeout : {0, 60},
     dialTimeout : {0, 5}, tlsHandshakeTimeout : {0, 5}, responseHeaderTimeout : {0, 15},
     expectContinueTimeout : {0, 2}, disableKeepAlives : {FALSE},
     disableCompression : {FALSE}]

\* One route with its timeout and TLS mode set, unset or invalid.
DefaultsConfigs ==
    {[routes |-> <<[RouteA EXCEPT !.timeout = to, !.tlsMode = tm]>>, transport |-> tr,
      tls |-> NoTLS, metrics |-> [enabled |-> FALSE]] :
        to \in {0, TickSeconds}, tm \in {"", "passthrough", "bogus"}, tr \in CallerTransports}

InitDefaults ==
    /\ config \in DefaultsConfigs
    /\ env = Env0
    /\ routes = <<>>
    /\ pc = "new"
    /\ served = 0
    /\ req = NoRequest
    /\ matched = 0
    /\ outreq = NoOutreq
    /\ upstream = NoUpstream
    /\ elapsed = 0
    /\ writers = NoWriters
    /\ respHeader = EmptyHeader
    /\ client = NoClient
    /\ metrics = NoMetrics
    /\ idleConns = 0

SpecDefaults == InitDefaults /\ [][NextNew]_vars

----------------------------------------------------------------------------
(* The environment changing under a running proxy                           *)

\* A route that adds the same template upstream and downstream.
RouteE(t) ==
    [RouteA EXCEPT !.headers.addUpstream = (XApiKey :> t),
                   !.headers.addDownstream = (Via :> t)]

\* Templates over K, which is set when New runs, and over U, which is not.
EnvTemplates ==
    {<<"$","{","K","}">>, <<"a","$","{","K","}","b">>, <<"$","{","U","}">>, <<"v">>}

EnvConfigs ==
    {[routes |-> <<RouteE(t)>>, transport |-> DefaultTransportConfig, tls |-> NoTLS,
      metrics |-> [enabled |-> FALSE]] : t \in EnvTemplates}

\* The values K is changed to.
EnvValues == {<<"n">>, <<>>}

EnvRequests == {r \in Requests : r.path = <<"/","a">> /\ ~ r.tls}

EnvResponses == {resp \in UpstreamResponses : resp.status \in {200, 500}}

InitEnv ==
    /\ config \in EnvConfigs
    /\ env \in Envs
    /\ routes = <<>>
    /\ pc = "new"
    /\ served = 0
    /\ req = NoRequest
    /\ matched = 0
    /\ outreq = NoOutreq
    /\ upstream = NoUpstream
    /\ elapsed = 0
    /\ writers = NoWriters
    /\ respHeader = EmptyHeader
    /\ client = NoClient
    /\ metrics = NoMetrics
    /\ idleConns = 0

\* The process environment is changed while the proxy is idle or while a
\* request waits for its upstream.
Setenv(key, value) ==
    /\ pc \in {"idle", "awaiting"}
    /\ Getenv(env, key) # value \/ key \notin DOMAIN env
    /\ env' = [x \in DOMAIN env \cup {key} |-> IF x = key THEN value ELSE env[x]]
    /\ UNCHANGED <<idleConns, config, routes, pc, served, req, matched, outreq, upstream, elapsed,
                   writers, respHeader, client, metrics>>

Unsetenv(key) ==
    /\ pc \in {"idle", "awaiting"}
    /\ key \in DOMAIN env
    /\ env' = [x \in DOMAIN env \ {key} |-> env[x]]
    /\ UNCHANGED <<idleConns, config, routes, pc, served, req, matched, outreq, upstream, elapsed,
                   writers, respHeader, client, metrics>>

NextEnv ==
    \/ NewFails
    \/ NewSucceeds
    \/ \E value \in EnvValues : Setenv(EnvKey, value)
    \/ Unsetenv(EnvKey)
    \/ \E r \in EnvRequests : ServeHTTPForward(r)
    \/ \E resp \in EnvResponses : UpstreamResponds(resp)

SpecEnv == InitEnv /\ [][NextEnv]_vars

----------------------------------------------------------------------------
(* Requests handled concurrently.  Each task is one call of ServeHTTP on a  *)
(* goroutine of its own; the per-request variables hold one value per task. *)

NumTasks == 2
Tasks == 1..NumTasks

\* One wrapped writer that every call of ServeHTTP uses.
writerOfFirst(t) == 1

\* "wrappedWriter := &redirectRewritingResponseWriter{...}" and "statusWriter :=
\* &statusCapturingResponseWriter{...}": each call allocates writers of its own.
writerOf(t) == t

ConcurrentConfig ==
    [routes |-> <<RouteA, RouteB>>, transport |-> DefaultTransportConfig, tls |-> NoTLS,
     metrics |-> [enabled |-> TRUE]]

ConcurrentRequests ==
    {r \in Requests : /\ r.path \in {<<"/","a">>, <<"/","a","/","b">>, <<"/","c">>}
                      /\ DOMAIN r.header = {UserAgent}
                      /\ ~ r.tls}

ConcurrentResponses ==
    {resp \in UpstreamResponses :
        \/ resp.status = 302 /\ resp.header[Location] = <<LocInternal>>
        \/ resp.status = 200 /\ DOMAIN resp.header = {Server}}

\* The writer chain of a task.
TaskChain(t) == [w |-> writers[writerOf(t)], h |-> respHeader[t], c |-> client[t]]

InitConcurrent ==
    /\ config = ConcurrentConfig
    /\ routes \in sortRoutesByPrefixLength(config.routes)
    /\ env = Env0
    /\ pc = [t \in Tasks |-> "idle"]
    /\ served = 0
    /\ req = [t \in Tasks |-> NoRequest]
    /\ matched = [t \in Tasks |-> 0]
    /\ outreq = [t \in Tasks |-> NoOutreq]
    /\ upstream = [t \in Tasks |-> NoUpstream]
    /\ elapsed = [t \in Tasks |-> 0]
    /\ writers = [t \in Tasks |-> NoWriters]
    /\ respHeader = [t \in Tasks |-> EmptyHeader]
    /\ client = [t \in Tasks |-> NoClient]
    /\ metrics = NoMetrics
    /\ idleConns = 0

\* ServeHTTP of task t when no route matches.
TaskNoRoute(t, r) ==
    /\ pc[t] = "idle"
    /\ findRoute(routes, r.path) = 0
    /\ req' = [req EXCEPT ![t] = r]
    /\ metrics' = [metrics EXCEPT !.requestErrors = Inc(@, <<"none", Method>>)]
    /\ client' = [client EXCEPT ![t] = underWrite(underWriteHeader(TaskChain(t), 404)).c]
    /\ pc' = [pc EXCEPT ![t] = "done"]
    /\ UNCHANGED <<config, routes, env, served, matched, outreq, upstream, elapsed, writers,
                   respHeader, idleConns>>

\* ServeHTTP of task t when a route matches, up to the round trip.
TaskForward(t, r) ==
    /\ pc[t] = "idle"
    /\ \E i \in {findRoute(routes, r.path)} :
          /\ i # 0
          /\ matched' = [matched EXCEPT ![t] = i]
          /\ writers' = [writers EXCEPT ![writerOf(t)] =
                            [NoWriters EXCEPT !.redirect = routes[i].rewriteRedirects,
                                              !.incomingHost = r.host,
                                              !.incomingScheme = incomingScheme(r)]]
          /\ \E out \in {director(env, routes[i], r)} :
                /\ outreq' = [outreq EXCEPT ![t] = out]
                /\ upstream' = [upstream EXCEPT
                                    ![t].calls = @ + 1,
                                    ![t].req = RoundTrip(routes[i], addXForwardedFor(r, out))]
          /\ metrics' = [metrics EXCEPT !.requests = Inc(@, <<routes[i].name, Method>>)]
    /\ req' = [req EXCEPT ![t] = r]
    /\ idleConns' = getConn(idleConns)
    /\ pc' = [pc EXCEPT ![t] = "awaiting"]
    /\ UNCHANGED <<config, routes, env, served, elapsed, respHeader, client>>

\* The writer chain of task t after a step of its handler.
TaskWrote(t, W) ==
    /\ writers' = [writers EXCEPT ![writerOf(t)] = W.w]
    /\ respHeader' = [respHeader EXCEPT ![t] = W.h]
    /\ client' = [client EXCEPT ![t] = W.c]

\* The upstream answers task t.
TaskResponds(t, resp) ==
    /\ pc[t] = "awaiting"
    /\ upstream' = [upstream EXCEPT ![t].resp = resp]
    /\ TaskWrote(t, swWriteHeader([TaskChain(t) EXCEPT !.h = resp.header], env, routes,
                                  routes[matched[t]], resp.status))
    /\ pc' = [pc EXCEPT ![t] = "responding"]
    /\ UNCHANGED <<config, routes, env, served, req, matched, outreq, elapsed, metrics,
                   idleConns>>

\* The round trip of task t returns an error.
TaskRoundTripFails(t, err) ==
    /\ pc[t] = "awaiting"
    /\ upstream' = [upstream EXCEPT ![t].err = err]
    /\ TaskWrote(t, swWriteHeader(TaskChain(t), env, routes, routes[matched[t]],
                                  errorStatus(err)))
    /\ pc' = [pc EXCEPT ![t] = "responding"]
    /\ UNCHANGED <<config, routes, env, served, req, matched, outreq, elapsed, metrics,
                   idleConns>>

\* ReverseProxy copies the response body of task t.
TaskCopyBody(t) ==
    /\ pc[t] = "responding"
    /\ upstream[t].err = "none"
    /\ TaskWrote(t, swWrite(TaskChain(t), env, routes, routes[matched[t]]))
    /\ pc' = [pc EXCEPT ![t] = "copied"]
    /\ UNCHANGED <<config, routes, env, served, req, matched, outreq, upstream, elapsed,
                   metrics, idleConns>>

\* reverseProxy.ServeHTTP of task t has returned.
TaskFinish(t) ==
    /\ pc[t] \in {"responding", "copied"}
    /\ metrics' = [metrics EXCEPT !.responses =
                        Inc(@, <<routes[matched[t]].name, Method,
                                 writers[writerOf(t)].statusCode>>)]
    /\ idleConns' = putIdleConn(idleConns, upstream[t].err)
    /\ pc' = [pc EXCEPT ![t] = "done"]
    /\ UNCHANGED <<config, routes, env, served, req, matched, outreq, upstream, elapsed,
                   writers, respHeader, client>>

\* Proxy.Close: p.transport.CloseIdleConnections().
Close ==
    /\ idleConns' = 0
    /\ UNCHANGED <<config, routes, env, pc, served, req, matched, outreq, upstream, elapsed,
                   writers, respHeader, client, metrics>>

NextConcurrent ==
    \/ \E t \in Tasks, r \in ConcurrentRequests : TaskNoRoute(t, r)
    \/ \E t \in Tasks, r \in ConcurrentRequests : TaskForward(t, r)
    \/ \E t \in Tasks, resp \in ConcurrentResponses : TaskResponds(t, resp)
    \/ \E t \in Tasks : TaskRoundTripFails(t, "connect")
    \/ \E t \in Tasks : TaskCopyBody(t)
    \/ \E t \in Tasks : TaskFinish(t)
    \/ Close

SpecConcurrent == InitConcurrent /\ [][NextConcurrent]_vars

----------------------------------------------------------------------------
(* Forwarding alone: one route, one request, up to the base transport       *)

RoutePlain ==
    [name |-> "f", pathPrefix |-> <<"/","a">>, upstream |-> <<"h","t","t","p",":","/","/","u","1">>,
     upstreamPathPrefix |-> <<>>, preserveHost |-> FALSE,
     timeout |-> DefaultRouteTimeout, tlsMode |-> "terminate",
     rewriteRedirects |-> FALSE, redirectBaseURL |-> <<>>,
     headers |-> [stripIncoming |-> <<>>, replaceIncoming |-> NoMap, addUpstream |-> NoMap,
                  stripOutgoing |-> <<>>, replaceOutgoing |-> NoMap, addDownstream |-> NoMap]]

\* The upstreamPathPrefix values of the routes.
UpstreamPathPrefixes == {<<>>, <<"/","u","p">>, <<"/">>, <<"/","/","u">>}

\* The incoming header rules of the routes.
IncomingRules ==
    {RoutePlain.headers,
     [RoutePlain.headers EXCEPT !.stripIncoming = <<XForwardedStar, Via>>,
                                !.addUpstream = (XApiKey :> <<"$","{","K","}">>)],
     [RoutePlain.headers EXCEPT !.addUpstream = (Upgrade :> <<"w">>)],
     [RoutePlain.headers EXCEPT !.stripIncoming = <<XForwardedStar>>,
                                !.addUpstream = (XForwardedProto :> Https)],
     [RoutePlain.headers EXCEPT !.addUpstream = (XForwardedFor :> <<"1">>)],
     [RoutePlain.headers EXCEPT !.replaceIncoming = (UserAgent :> <<"m">>),
                                !.addUpstream = (XCustom :> <<"a","$","{","U","}","b","$","{","K">>)
                                                    @@ (XApiKey :> <<"$","{","K","}","$","{","K","}">>)]}

ForwardConfigs ==
    {[routes |-> <<[RoutePlain EXCEPT !.upstreamPathPrefix = upp, !.headers = h]>>,
      transport |-> DefaultTransportConfig,
      tls |-> NoTLS,
      metrics |-> [enabled |-> FALSE]] : upp \in UpstreamPathPrefixes, h \in IncomingRules}

ForwardPaths == {<<"/","a">>, <<"/","a","/","x">>, <<"/","a","/","/","x">>, <<"/","b">>}

ForwardRequests ==
    {[path |-> p, header |-> h.header, host |-> <<"p","x">>, tls |-> h.tls, clientIP |-> <<"i","p">>] :
        p \in ForwardPaths, h \in RequestHeaders}

InitForward ==
    /\ config \in ForwardConfigs
    /\ routes \in sortRoutesByPrefixLength(config.routes)
    /\ env = Env0
    /\ pc = "idle"
    /\ served = 0
    /\ req = NoRequest
    /\ matched = 0
    /\ outreq = NoOutreq
    /\ upstream = NoUpstream
    /\ elapsed = 0
    /\ writers = NoWriters
    /\ respHeader = EmptyHeader
    /\ client = NoClient
    /\ metrics = NoMetrics
    /\ idleConns = 0

NextForward ==
    \/ \E r \in ForwardRequests : ServeHTTPNoRoute(r)
    \/ \E r \in ForwardRequests : ServeHTTPForward(r)

SpecForward == InitForward /\ [][NextForward]_vars

----------------------------------------------------------------------------
(* The incoming header transform alone, applied twice                       *)

\* The Set loops of processHeaders, the values appended instead of set.
SetAllAppending(h, m) ==
    {[k \in DOMAIN h \cup {CanonicalHeaderKey(x) : x \in DOMAIN m} |->
        IF k \in DOMAIN h
        THEN IF \E x \in DOMAIN m : CanonicalHeaderKey(x) = k
             THEN h[k] \o <<m[CHOOSE x \in DOMAIN m : CanonicalHeaderKey(x) = k]>>
             ELSE h[k]
        ELSE <<m[CHOOSE x \in DOMAIN m : CanonicalHeaderKey(x) = k]>>]}

\* The "for key, value := range m { outHeader.Set(key, ...) }" loops of
\* processHeaders in every iteration order of the map: of the keys with the
\* same canonical form any one may come last and leave its value.
SetAllOrders(h, m) ==
    {[k \in DOMAIN h \cup {CanonicalHeaderKey(x) : x \in DOMAIN m} |->
        IF k \in DOMAIN last THEN <<m[last[k]]>> ELSE h[k]] :
     last \in {f \in [{CanonicalHeaderKey(x) : x \in DOMAIN m} -> DOMAIN m] :
                  \A k \in DOMAIN f : CanonicalHeaderKey(f[k]) = k}}

\* HeaderManipulator.processHeaders: the maps it can return.
processHeadersOrders(e, inHeader, stripPatterns, replaceHeaders, addHeaders) ==
    UNION {SetAllOrders(replaced,
                        [key \in DOMAIN addHeaders |-> expandEnvVars(e, addHeaders[key])]) :
           replaced \in SetAllOrders(stripHeaders(inHeader, stripPatterns), replaceHeaders)}

\* HeaderManipulator.ProcessIncoming: the maps it can return.
ProcessIncomingOrders(e, hc, inHeader) ==
    processHeadersOrders(e, inHeader, hc.stripIncoming, hc.replaceIncoming, hc.addUpstream)

\* Header rules with a name spelled in two ways, with an added header that a
\* strip pattern covers, and with a header both replaced and added.
TwiceRules ==
    IncomingRules \cup
    {[RoutePlain.headers EXCEPT !.replaceIncoming = (<<"x","-","a">> :> <<"1">>)
                                                        @@ (<<"X","-","A">> :> <<"2">>)],
     [RoutePlain.headers EXCEPT !.addUpstream = (<<"x","-","a">> :> <<"1">>)
                                                    @@ (<<"X","-","A">> :> <<"$","{","K","}">>)],
     [RoutePlain.headers EXCEPT !.stripIncoming = << <<"x","-","*">> >>,
                                !.addUpstream = (XApiKey :> <<"$","{","K","}">>)],
     [RoutePlain.headers EXCEPT !.stripIncoming = <<UserAgent>>,
                                !.replaceIncoming = (UserAgent :> <<"m">>),
                                !.addUpstream = (UserAgent :> <<"n">>)]}

TwiceConfigs ==
    {[routes |-> <<[RoutePlain EXCEPT !.headers = h]>>,
      transport |-> DefaultTransportConfig,
      tls |-> NoTLS,
      metrics |-> [enabled |-> FALSE]] : h \in TwiceRules}

\* The header maps handed to ProcessIncoming.
HeaderMaps ==
    {h.header : h \in RequestHeaders}
        \cup {EmptyHeader, (<<"X","-","A">> :> << <<"0">>, <<"1">> >>) @@ (XApiKey :> << <<"k">> >>)}

InitTwice ==
    /\ config \in TwiceConfigs
    /\ routes = config.routes
    /\ env = Env0
    /\ pc = "idle"
    /\ served = 0
    /\ req = NoRequest
    /\ matched = 1
    /\ outreq = NoOutreq
    /\ upstream = NoUpstream
    /\ elapsed = 0
    /\ writers = NoWriters
    /\ respHeader = EmptyHeader
    /\ client = NoClient
    /\ metrics = NoMetrics
    /\ idleConns = 0

\* ProcessIncoming(H): H is kept in req, the result in outreq.
ProcessOnce(H) ==
    /\ pc = "idle"
    /\ req' = [NoRequest EXCEPT !.header = H]
    /\ \E out \in ProcessIncomingOrders(env, routes[matched].headers, H) :
          outreq' = [NoOutreq EXCEPT !.header = out]
    /\ pc' = "once"
    /\ UNCHANGED <<idleConns, config, routes, env, served, matched, upstream, elapsed, writers,
                   respHeader, client, metrics>>

\* ProcessIncoming(ProcessIncoming(H)): the result is kept in upstream.req.
ProcessTwice ==
    /\ pc = "once"
    /\ \E out \in ProcessIncomingOrders(env, routes[matched].headers, outreq.header) :
          upstream' = [NoUpstream EXCEPT !.req.header = out]
    /\ pc' = "twice"
    /\ UNCHANGED <<idleConns, config, routes, env, served, req, matched, outreq, elapsed, writers,
                   respHeader, client, metrics>>

NextTwice ==
    \/ \E H \in HeaderMaps : ProcessOnce(H)
    \/ ProcessTwice

SpecTwice == InitTwice /\ [][NextTwice]_vars

----------------------------------------------------------------------------
(* The redirect rewriter alone, applied to its own result                   *)

\* The Host header and the scheme of the inbound request: the host of the
\* proxy or of an upstream; http, https, none, or a malformed hint.
IncomingHosts == {<<"p","x">>, <<"u","1">>}
IncomingSchemes == {Http, Https, <<>>, <<"1">>}

InitRewrite ==
    /\ config \in Configs
    /\ routes \in sortRoutesByPrefixLength(config.routes)
    /\ env = Env0
    /\ pc = "idle"
    /\ served = 0
    /\ req = NoRequest
    /\ matched \in 1..Len(config.routes)
    /\ outreq = NoOutreq
    /\ upstream = NoUpstream
    /\ elapsed = 0
    /\ writers \in {[NoWriters EXCEPT !.redirect = TRUE, !.incomingHost = h,
                                      !.incomingScheme = sch] :
                        h \in IncomingHosts, sch \in IncomingSchemes}
    /\ respHeader = EmptyHeader
    /\ client = NoClient
    /\ metrics = NoMetrics
    /\ idleConns = 0

\* handleRedirectRewrite on a response with the given Location: the response
\* is kept in upstream.resp, the headers it leaves in respHeader.
RewriteOnce(location) ==
    /\ pc = "idle"
    /\ upstream' = [upstream EXCEPT !.resp = [status |-> 302,
                                             header |-> (Location :> <<location>>)]]
    /\ respHeader' = handleRedirectRewrite([Chain EXCEPT !.h = (Location :> <<location>>)],
                                           routes, routes[matched]).h
    /\ pc' = "once"
    /\ UNCHANGED <<idleConns, config, routes, env, served, req, matched, outreq, elapsed, writers,
                   client, metrics>>

\* handleRedirectRewrite on the Location it has rewritten: the headers it
\* leaves are kept in client.header.
RewriteAgain ==
    /\ pc = "once"
    /\ respHeader # upstream.resp.header
    /\ client' = [client EXCEPT !.header = handleRedirectRewrite(Chain, routes,
                                                                 routes[matched]).h]
    /\ pc' = "twice"
    /\ UNCHANGED <<idleConns, config, routes, env, served, req, matched, outreq, upstream, elapsed,
                   writers, respHeader, metrics>>

NextRewrite ==
    \/ \E location \in Locations \ {<<>>} : RewriteOnce(location)
    \/ RewriteAgain

SpecRewrite == InitRewrite /\ [][NextRewrite]_vars

----------------------------------------------------------------------------
(* The response writer wrappers alone, under any sequence of calls          *)

\* Calls made on the wrappers of one request.
MaxWriterCalls == 2

\* RouteA with an outgoing rule that sets Location to the URL of an upstream.
RouteL == [RouteA EXCEPT !.headers.replaceOutgoing = (Location :> LocInternal)]

\* RouteA with a redirect base URL and a downstream header naming Location.
RouteD ==
    [RouteA EXCEPT !.redirectBaseURL = <<"h","t","t","p","s",":","/","/","p","x">>,
                   !.headers.addDownstream = (Location :> LocKnown)]

WriterConfigs ==
    {[routes |-> <<r, RouteB>>,
      transport |-> DefaultTransportConfig,
      tls |-> NoTLS,
      metrics |-> [enabled |-> FALSE]] : r \in {RouteA, RouteC, RouteL, RouteD}}

\* The status codes handed to WriteHeader.
WriterCodes == {200, 301, 302, 500}

\* ServeHTTP has wrapped the writer of a matched request and ReverseProxy has
\* copied the headers of the upstream response into rw.Header().
InitWriter ==
    /\ config \in WriterConfigs
    /\ routes \in sortRoutesByPrefixLength(config.routes)
    /\ env = Env0
    /\ pc = "handling"
    /\ served = 0
    /\ req = NoRequest
    /\ matched \in 1..Len(config.routes)
    /\ outreq = NoOutreq
    /\ upstream \in {[NoUpstream EXCEPT !.calls = 1, !.resp = resp] : resp \in UpstreamResponses}
    /\ elapsed = 0
    /\ writers = [NoWriters EXCEPT !.redirect = routes[matched].rewriteRedirects,
                                   !.incomingHost = <<"p","x">>,
                                   !.incomingScheme = Http]
    /\ respHeader = upstream.resp.header
    /\ client = NoClient
    /\ metrics = NoMetrics
    /\ idleConns = 0

\* statusWriter.WriteHeader(statusCode)
WriteHeaderCall(statusCode) ==
    /\ client.calls < MaxWriterCalls
    /\ \E W \in {swWriteHeader(Chain, env, routes, routes[matched], statusCode)} :
          /\ writers' = W.w
          /\ respHeader' = W.h
          /\ client' = W.c
    /\ pc' = "WriteHeader"
    /\ UNCHANGED <<idleConns, config, routes, env, served, req, matched, outreq, upstream, elapsed, metrics>>

\* statusWriter.Write(data)
WriteCall ==
    /\ client.body < MaxWriterCalls
    /\ \E W \in {swWrite(Chain, env, routes, routes[matched])} :
          /\ writers' = W.w
          /\ respHeader' = W.h
          /\ client' = W.c
    /\ pc' = "Write"
    /\ UNCHANGED <<idleConns, config, routes, env, served, req, matched, outreq, upstream, elapsed, metrics>>

\* statusWriter.Header().Set("Location", location)
HeaderSetCall(location) ==
    /\ respHeader' = HeaderSet(respHeader, Location, location)
    /\ pc' = "Header"
    /\ UNCHANGED <<idleConns, config, routes, env, served, req, matched, outreq, upstream, elapsed,
                   writers, client, metrics>>

NextWriter ==
    \/ \E statusCode \in WriterCodes : WriteHeaderCall(statusCode)
    \/ WriteCall
    \/ \E location \in {LocKnown, LocRelative} : HeaderSetCall(location)

SpecWriter == InitWriter /\ [][NextWriter]_vars

----------------------------------------------------------------------------
(* Properties                                                               *)

\* The request has been handed to the upstream.
Forwarded == upstream.calls > 0

\* The status line has been passed to the client.
Answered == client.wroteHeader

MatchedRoute == routes[matched]

\* url.Parse of the upstream URLs and the Location values of the inputs,
\* computed once.
ParsedInputs ==
    [s \in {r.upstream : r \in RouteConfigs} \cup Locations |-> URLParse(s)]

Parsed(s) == IF s \in DOMAIN ParsedInputs THEN ParsedInputs[s] ELSE URLParse(s)

RedirectCodes == {301, 302, 303, 307, 308}

\* C1: for every request served by a matched route and every pattern P of the
\* route's stripIncoming list, the request that reaches the upstream carries no
\* header whose name matches P (case-insensitive; exact, or prefix when P ends
\* in '*'), headers injected by the reverse-proxy framework included.
C1_StrippedHeadersAbsentUpstream ==
    Forwarded =>
        \A i \in 1..Len(MatchedRoute.headers.stripIncoming) :
            \A key \in DOMAIN upstream.req.header :
                LET pat == ToLower(MatchedRoute.headers.stripIncoming[i])
                    name == ToLower(key)
                IN  /\ name # pat
                    /\ (HasSuffix(pat, Star) => ~ HasPrefix(name, TrimSuffix(pat, Star)))

\* C2: the request is served by the route whose pathPrefix is the longest one
\* that is a raw string prefix of the path, whatever the order of the routes
\* in the Config.
C2_LongestPrefixMatch ==
    pc # "idle" =>
        \A i \in 1..Len(config.routes) :
            HasPrefix(req.path, config.routes[i].pathPrefix) =>
                /\ matched # 0
                /\ HasPrefix(req.path, MatchedRoute.pathPrefix)
                /\ Len(config.routes[i].pathPrefix) <= Len(MatchedRoute.pathPrefix)
                /\ Forwarded
                /\ upstream.req.urlHost = Parsed(MatchedRoute.upstream).host

\* Two routes of the Config match the path and the shorter prefix comes first.
C2_Witness ==
    /\ pc = "awaiting"
    /\ Len(config.routes) = 2
    /\ HasPrefix(req.path, config.routes[1].pathPrefix)
    /\ HasPrefix(req.path, config.routes[2].pathPrefix)
    /\ Len(config.routes[1].pathPrefix) < Len(config.routes[2].pathPrefix)
    /\ MatchedRoute = config.routes[2]

\* The upstream of a rewriting route has answered with a redirect whose
\* Location is an absolute URL.
RedirectAnswered ==
    /\ matched # 0
    /\ upstream.err = "none"
    /\ Answered
    /\ upstream.resp.status \in RedirectCodes
    /\ Location \in DOMAIN upstream.resp.header
    /\ ~ Parsed(upstream.resp.header[Location][1]).err
    /\ Parsed(upstream.resp.header[Location][1]).scheme # <<>>

UpstreamLocation == upstream.resp.header[Location][1]

RoutesWithHost(host) ==
    {i \in 1..Len(routes) : Parsed(routes[i].upstream).host = host}

\* No outgoing header rule of the route strips or sets Location.
OutgoingRulesSpareLocation(route) ==
    /\ \A i \in 1..Len(route.headers.stripOutgoing) :
          LET pat == ToLower(route.headers.stripOutgoing[i])
          IN  /\ pat # ToLower(Location)
              /\ (HasSuffix(pat, Star) => ~ HasPrefix(ToLower(Location), TrimSuffix(pat, Star)))
    /\ \A k \in DOMAIN route.headers.replaceOutgoing : ToLower(k) # ToLower(Location)
    /\ \A k \in DOMAIN route.headers.addDownstream : ToLower(k) # ToLower(Location)

C3_Case ==
    /\ RedirectAnswered
    /\ MatchedRoute.rewriteRedirects
    /\ RoutesWithHost(Parsed(UpstreamLocation).host) # {}

C3_Outcome ==
    /\ client.status = upstream.resp.status
    /\ Location \in DOMAIN client.header
    /\ \E i \in RoutesWithHost(Parsed(UpstreamLocation).host) :
          HasPrefix(Parsed(client.header[Location][1]).path, routes[i].pathPrefix)

\* C3 as stated: on a route with rewriteRedirects=true, a redirect whose
\* absolute Location names the upstream host of a configured route reaches the
\* client with the same status and a Location whose path begins with the
\* pathPrefix of a route having that upstream host.
C3_RedirectToKnownHostRewritten == C3_Case => C3_Outcome

\* C3, amended: the same, provided no outgoing header rule of the matched
\* route strips or sets Location.
C3_RedirectToKnownHostRewrittenUnlessOverridden ==
    (C3_Case /\ OutgoingRulesSpareLocation(MatchedRoute)) => C3_Outcome

\* A redirect to the upstream host of another configured route was rewritten.
C3_Witness ==
    /\ C3_Case
    /\ OutgoingRulesSpareLocation(MatchedRoute)
    /\ Parsed(UpstreamLocation).host # Parsed(MatchedRoute.upstream).host
    /\ client.header[Location][1] # UpstreamLocation

C4_Case ==
    /\ RedirectAnswered
    /\ RoutesWithHost(Parsed(UpstreamLocation).host) = {}

C4_Outcome ==
    /\ client.status = upstream.resp.status
    /\ Location \in DOMAIN client.header
    /\ client.header[Location] = upstream.resp.header[Location]
    /\ (pc = "copied" => client.body = 1)

\* C4 as stated: a redirect whose absolute Location names a host that is the
\* upstream host of no configured route reaches the client with its status and
\* with the Location the upstream sent, byte for byte.
C4_RedirectToUnknownHostUnchanged == C4_Case => C4_Outcome

\* C4, amended: the same, provided no outgoing header rule of the matched
\* route strips or sets Location.
C4_RedirectToUnknownHostUnchangedUnlessOverridden ==
    (C4_Case /\ OutgoingRulesSpareLocation(MatchedRoute)) => C4_Outcome

\* A rewriting route has passed on a redirect to an unknown host, body included.
C4_Witness ==
    /\ C4_Case
    /\ MatchedRoute.rewriteRedirects
    /\ OutgoingRulesSpareLocation(MatchedRoute)
    /\ pc = "copied"

\* C5: for every response of every matched route, with or without
\* rewriteRedirects, the outgoing header transform has been applied to the
\* headers the client receives with the status line.
C5_OutgoingTransformApplied ==
    (matched # 0 /\ Answered) =>
        LET hc == MatchedRoute.headers
        IN  /\ \A i \in 1..Len(hc.stripOutgoing) :
                  \A key \in DOMAIN client.header :
                      LET pat == ToLower(hc.stripOutgoing[i])
                      IN  /\ ToLower(key) # pat
                          /\ (HasSuffix(pat, Star)
                                => ~ HasPrefix(ToLower(key), TrimSuffix(pat, Star)))
            /\ \A k \in DOMAIN hc.replaceOutgoing :
                  k \notin DOMAIN hc.addDownstream =>
                      /\ k \in DOMAIN client.header
                      /\ client.header[k] = <<hc.replaceOutgoing[k]>>
            /\ \A k \in DOMAIN hc.addDownstream : k \in DOMAIN client.header

TimeoutErrors == {"dial_timeout", "tls_timeout", "header_timeout"}

\* C6: when the round trip fails because a timeout expired in any phase, the
\* client receives 504 Gateway Timeout.
C6_TimeoutAnswered504 ==
    (upstream.err \in TimeoutErrors /\ pc = "done") => client.status = 504

\* C7: when the connection could not be established or the TLS handshake
\* failed, the client receives 502 Bad Gateway, exactly one response is
\* written and the handler runs on to its end.
C7_ConnectFailureAnswered502 ==
    upstream.err \in {"connect", "tls"} =>
        /\ pc \in {"responding", "done"}
        /\ Answered
        /\ client.status = 502
        /\ client.calls = 1
        /\ client.body = 0
        /\ writers.statusCode = 502

\* The handler has run to its end after a failed connection.
C7_Witness ==
    /\ upstream.err = "connect"
    /\ pc = "done"
    /\ client.status = 502

\* C8: no request waits on the upstream longer than the timeout of its route.
C8_RouteTimeoutEnforced ==
    pc = "awaiting" => elapsed <= MatchedRoute.timeout

\* C9: when no route's pathPrefix is a prefix of the request path, the answer
\* is 404, there is no upstream request and nothing is transformed.
C9_NoRouteAnswered404 ==
    (pc # "idle" /\ \A i \in 1..Len(config.routes) :
                        ~ HasPrefix(req.path, config.routes[i].pathPrefix)) =>
        /\ pc = "done"
        /\ client.status = 404
        /\ client.calls = 1
        /\ ~ Forwarded
        /\ outreq = NoOutreq
        /\ writers = NoWriters

\* A request that matches no route has been answered.
C9_Witness ==
    /\ pc = "done"
    /\ matched = 0
    /\ req.path # <<>>
    /\ client.status = 404

\* The names listed in the inbound request's Connection header.
ConnectionListed ==
    LET value == IF Connection \in DOMAIN req.header THEN req.header[Connection][1] ELSE <<>>
        parts == Split(value, <<",">>)
    IN  {ToLower(TrimSpace(parts[i])) : i \in 1..Len(parts)} \ {<<>>}

\* C10: the request forwarded upstream carries none of the hop-by-hop headers
\* and none of the headers named in the inbound request's Connection header.
C10_NoHopByHopUpstream ==
    Forwarded =>
        \A key \in DOMAIN upstream.req.header :
            /\ \A i \in 1..Len(hopByHopHeaders) : ToLower(key) # ToLower(hopByHopHeaders[i])
            /\ ToLower(key) \notin ConnectionListed

\* Two routes of the Config have the same pathPrefix.
DuplicatePrefix ==
    \E i, j \in 1..Len(config.routes) :
        i # j /\ config.routes[i].pathPrefix = config.routes[j].pathPrefix

\* C11: when two routes of the Config have the same pathPrefix New returns an
\* error and no Proxy; the pathPrefix values of a Config New has accepted are
\* pairwise distinct.
C11_DuplicatePrefixRejected ==
    pc # "new" =>
        /\ DuplicatePrefix => (pc = "failed" /\ routes = <<>>)
        /\ pc = "idle" => (~ DuplicatePrefix /\ Len(routes) = Len(config.routes))

\* New has refused two routes that are valid one by one and share a pathPrefix.
C11_Witness ==
    /\ pc = "failed"
    /\ DuplicatePrefix
    /\ \A i \in 1..Len(config.routes) : RouteConfigValidate(env, config.routes[i]) = "none"

\* The values of the addUpstream and addDownstream maps of all routes.
AddValues ==
    UNION {{config.routes[i].headers.addUpstream[k] :
                k \in DOMAIN config.routes[i].headers.addUpstream}
           \cup {config.routes[i].headers.addDownstream[k] :
                k \in DOMAIN config.routes[i].headers.addDownstream}
           : i \in 1..Len(config.routes)}

\* The positions of value at which a "${" begins.
References(value) == {i \in 1..(Len(value) - 1) : SubSeq(value, i, i + 1) = DollarBrace}

\* The reference beginning at position i has no "}", or an empty name, or
\* names a variable that is not in the environment.
BadReference(value, i) ==
    \/ ~ \E j \in (i + 2)..Len(value) : value[j] = "}"
    \/ value[i + 2] = "}"
    \/ \A j \in (i + 2)..Len(value) :
          (value[j] = "}" /\ \A k \in (i + 2)..(j - 1) : value[k] # "}")
              => SubSeq(value, i + 2, j - 1) \notin DOMAIN env

SomeBadReference == \E v \in AddValues : \E i \in References(v) : BadReference(v, i)

\* What else Config.Validate refuses.
OtherwiseInvalid ==
    \/ Len(config.routes) = 0
    \/ DuplicatePrefix
    \/ \E i \in 1..Len(config.routes) :
          \/ config.routes[i].name = ""
          \/ ~ HasPrefix(config.routes[i].pathPrefix, <<"/">>)
          \/ URLParse(config.routes[i].upstream).scheme \notin {Http, Https}
          \/ /\ config.routes[i].redirectBaseURL # <<>>
             /\ \/ URLParse(config.routes[i].redirectBaseURL).scheme = <<>>
                \/ URLParse(config.routes[i].redirectBaseURL).host = <<>>

\* C12: New fails whenever an addUpstream or addDownstream value holds a "${"
\* reference that is unclosed, empty or names a variable absent from the
\* environment; when every reference is closed, non-empty and names a present
\* variable (possibly set to the empty string) New fails only for another reason.
C12_EnvReferencesChecked ==
    pc # "new" =>
        /\ SomeBadReference => pc = "failed"
        /\ (~ SomeBadReference /\ pc = "failed") => OtherwiseInvalid

\* New has refused a Config whose only fault is a bad reference.
C12_Witness ==
    /\ pc = "failed"
    /\ SomeBadReference
    /\ ~ OtherwiseInvalid

\* The template with every closed ${VAR} replaced by the value of VAR in the
\* environment, from left to right; from an unclosed "${" on it is kept.
RECURSIVE Expanded(_)
Expanded(t) ==
    IF ~ \E i \in References(t) : \E j \in (i + 2)..Len(t) : t[j] = "}" THEN t
    ELSE LET i == CHOOSE x \in References(t) : \A y \in References(t) : x <= y
             j == CHOOSE x \in (i + 2)..Len(t) :
                     t[x] = "}" /\ \A y \in (i + 2)..(x - 1) : t[y] # "}"
         IN  SubSeq(t, 1, i - 1) \o Getenv(env, SubSeq(t, i + 2, j - 1))
                \o Expanded(SubSeq(t, j + 1, Len(t)))

\* The upstream request carries the header with the expanded template as its
\* only value.
Carries(name, template) ==
    /\ CanonicalHeaderKey(name) \in DOMAIN upstream.req.header
    /\ upstream.req.header[CanonicalHeaderKey(name)] = <<Expanded(template)>>

\* The name is one of the hop-by-hop headers.
HopByHopName(name) ==
    \E i \in 1..Len(hopByHopHeaders) : ToLower(name) = ToLower(hopByHopHeaders[i])

\* The name matches a stripIncoming pattern of the route.
StrippedName(route, name) ==
    \E i \in 1..Len(route.headers.stripIncoming) :
        \/ ToLower(name) = ToLower(route.headers.stripIncoming[i])
        \/ /\ HasSuffix(route.headers.stripIncoming[i], Star)
           /\ HasPrefix(ToLower(name), ToLower(TrimSuffix(route.headers.stripIncoming[i], Star)))

PathRemainder == SubSeq(req.path, Len(MatchedRoute.pathPrefix) + 1, Len(req.path))

\* The sequence without its first element when it begins with two slashes.
OneSlashDropped(p) ==
    IF Len(p) >= 2 /\ p[1] = "/" /\ p[2] = "/" THEN SubSeq(p, 2, Len(p)) ELSE p

\* C14: with a non-empty upstreamPathPrefix the upstream path is the
\* upstreamPathPrefix followed by the request path without its leading
\* pathPrefix, less one leading slash when that begins with "//"; with an
\* empty upstreamPathPrefix it is the request path.
C14_PathRewritten ==
    Forwarded =>
        upstream.req.path =
            IF MatchedRoute.upstreamPathPrefix # <<>>
            THEN OneSlashDropped(MatchedRoute.upstreamPathPrefix \o PathRemainder)
            ELSE req.path

\* A path was rewritten and a leading slash dropped.
C14_Witness ==
    /\ Forwarded
    /\ MatchedRoute.upstreamPathPrefix = <<"/">>
    /\ req.path = <<"/","a","/","x">>
    /\ upstream.req.path = <<"/","x">>

\* C15: with an upstreamPathPrefix the rewritten upstream path never begins
\* with "//".
C15_NoDoubleLeadingSlash ==
    (Forwarded /\ MatchedRoute.upstreamPathPrefix # <<>>) =>
        ~ HasPrefix(upstream.req.path, <<"/","/">>)

\* C16 as stated: when the request path equals the matched route's pathPrefix
\* the route matches and the upstream receives the empty path when
\* upstreamPathPrefix is not set and exactly upstreamPathPrefix when it is.
C16_ExactPrefixPath ==
    (pc # "idle" /\ \E i \in 1..Len(routes) : req.path = routes[i].pathPrefix) =>
        /\ Forwarded
        /\ req.path = MatchedRoute.pathPrefix =>
              upstream.req.path = MatchedRoute.upstreamPathPrefix

\* C16, amended: the upstream receives the request path unchanged when
\* upstreamPathPrefix is not set, and upstreamPathPrefix, less one leading
\* slash when it begins with "//", when it is.
C16_ExactPrefixPathUnchanged ==
    (pc # "idle" /\ \E i \in 1..Len(routes) : req.path = routes[i].pathPrefix) =>
        /\ Forwarded
        /\ req.path = MatchedRoute.pathPrefix =>
              upstream.req.path =
                  IF MatchedRoute.upstreamPathPrefix = <<>> THEN req.path
                  ELSE OneSlashDropped(MatchedRoute.upstreamPathPrefix)

\* A request for the bare pathPrefix of a route without upstreamPathPrefix.
C16_Witness ==
    /\ Forwarded
    /\ req.path = MatchedRoute.pathPrefix
    /\ MatchedRoute.upstreamPathPrefix = <<>>
    /\ upstream.req.path = req.path

\* The inbound header is outside the incoming rules of the route: it matches
\* no stripIncoming pattern, is no key of replaceIncoming or addUpstream, and
\* is neither a hop-by-hop header nor named in Connection.
OutsideIncomingRules(route, name) ==
    /\ ~ StrippedName(route, name)
    /\ \A k \in DOMAIN route.headers.replaceIncoming : ToLower(k) # ToLower(name)
    /\ \A k \in DOMAIN route.headers.addUpstream : ToLower(k) # ToLower(name)
    /\ ~ HopByHopName(name)
    /\ ToLower(name) \notin ConnectionListed

\* The upstream request carries the inbound header with the same values.
Kept(name) ==
    /\ name \in DOMAIN upstream.req.header
    /\ upstream.req.header[name] = req.header[name]

C17_OneRoundTrip ==
    /\ upstream.calls <= 1
    /\ Forwarded =>
          /\ matched # 0
          /\ upstream.req.urlHost = Parsed(MatchedRoute.upstream).host
          /\ upstream.req.scheme = Parsed(MatchedRoute.upstream).scheme
    /\ (pc \in {"responding", "copied", "done"} /\ matched # 0) => upstream.calls = 1

\* A redirect to the upstream of another route has been rewritten and
\* answered, and the handler has run to its end.
C17_Witness ==
    /\ pc = "done"
    /\ C3_Case
    /\ client.header[Location] # upstream.resp.header[Location]
    /\ upstream.calls = 1

\* No two keys of the map are the same header name up to case.
KeysDistinct(m) == \A x, y \in DOMAIN m : ToLower(x) = ToLower(y) => x = y

\* C19 as stated: for every header map and every HeaderConfig, applying the
\* incoming transform to its own result gives that result again.
C19_IncomingIdempotent ==
    pc = "twice" => upstream.req.header = outreq.header

\* C19, amended: the same for every HeaderConfig in which no two keys of
\* replaceIncoming and no two keys of addUpstream are the same header name up
\* to case.
C19_IncomingIdempotentDistinctKeys ==
    (/\ pc = "twice"
     /\ KeysDistinct(MatchedRoute.headers.replaceIncoming)
     /\ KeysDistinct(MatchedRoute.headers.addUpstream))
        => upstream.req.header = outreq.header

\* The transform changed the map the first time and nothing the second time,
\* with an added header that a strip pattern covers.
C19_Witness ==
    /\ pc = "twice"
    /\ outreq.header # req.header
    /\ upstream.req.header = outreq.header
    /\ \E k \in DOMAIN MatchedRoute.headers.addUpstream : StrippedName(MatchedRoute, k)
    /\ XForwardedFor \in DOMAIN req.header

\* What RewriteRedirect returns for the Location it produced.
SecondResult ==
    RewriteRedirect(respHeader[Location][1], writers.incomingHost, writers.incomingScheme,
                    routes, MatchedRoute)

\* C20 as stated: for every route table, current route and incoming host and
\* scheme, a Location that RewriteRedirect has produced comes back unchanged
\* from RewriteRedirect, with rewritten=false and type external_unknown or
\* relative.
C20_RewriteIdempotent ==
    pc = "twice" =>
        /\ client.header = respHeader
        /\ ~ SecondResult.rewritten
        /\ SecondResult.type \in {"external_unknown", "relative"}

\* The host the route puts into a rewritten Location.
ProxyHost(route) ==
    IF route.redirectBaseURL # <<>> THEN URLParse(route.redirectBaseURL).host
    ELSE writers.incomingHost

\* The scheme the route puts into a rewritten Location.
ProxyScheme(route) ==
    IF route.redirectBaseURL # <<>> THEN URLParse(route.redirectBaseURL).scheme
    ELSE writers.incomingScheme

\* A URL scheme: a letter followed by letters, digits, "+", "-" and ".".
IsScheme(sch) ==
    /\ Len(sch) > 0
    /\ IsLetter(sch[1])
    /\ \A i \in 1..Len(sch) : IsLetter(sch[i]) \/ sch[i] \in SchemeExtra

\* C20, amended: the same, provided the host that the routes put into a
\* rewritten Location (the host of redirectBaseURL, else the incoming Host) is
\* the upstream host of no route, and the scheme they put into it is empty or
\* a well-formed URL scheme; the type is then external_unknown.
C20_RewriteIdempotentOffUpstream ==
    (/\ pc = "twice"
     /\ \A i \in 1..Len(routes) :
           /\ RoutesWithHost(ProxyHost(routes[i])) = {}
           /\ ProxyScheme(routes[i]) = <<>> \/ IsScheme(ProxyScheme(routes[i])))
        => /\ client.header = respHeader
           /\ ~ SecondResult.rewritten
           /\ SecondResult.type = "external_unknown"

\* A Location rewritten to another route came back unchanged the second time.
C20_Witness ==
    /\ pc = "twice"
    /\ writers.incomingHost = <<"p","x">>
    /\ upstream.resp.header[Location] = <<LocKnown>>
    /\ respHeader[Location] # <<LocKnown>>
    /\ client.header = respHeader
    /\ SecondResult.type = "external_unknown"

----------------------------------------------------------------------------
(* The response writer wrappers                                             *)

\* C21: on the writer wrappers of a request a second WriteHeader call is a
\* no-op: once a WriteHeader has been made, a later WriteHeader leaves the
\* captured status as it is, changes no response header (no redirect rewrite,
\* no outgoing transform) and does not reach the underlying writer.
C21_SecondWriteHeaderNoOp ==
    [][(pc' = "WriteHeader" /\ writers.swWroteHeader) =>
            /\ writers'.statusCode = writers.statusCode
            /\ respHeader' = respHeader
            /\ client' = client]_vars


\* The first call on the wrappers of a rewriting route is being made.
FirstWriteOnRewritingRoute ==
    /\ ~ writers.swWroteHeader
    /\ writers'.swWroteHeader
    /\ writers.redirect

\* The headers with Location rewritten as the redirect rewriter leaves them
\* when the status is statusCode.
RewrittenHeaders(h, statusCode) ==
    IF isRedirect(statusCode) /\ HeaderGet(h, Location) # <<>>
    THEN LET result == RewriteRedirect(HeaderGet(h, Location), writers.incomingHost,
                                       writers.incomingScheme, routes, MatchedRoute)
         IN  IF result.rewritten THEN HeaderSet(h, Location, result.location) ELSE h
    ELSE h

\* A stripOutgoing pattern of the route covers Location.
LocationStripped(route) ==
    \E i \in 1..Len(route.headers.stripOutgoing) :
        matchesPattern(Location, route.headers.stripOutgoing[i])

\* The values the outgoing rules of the route set Location to.
LocationSetTo(route) ==
    IF Location \in DOMAIN route.headers.addDownstream
    THEN {expandEnvVars(env, route.headers.addDownstream[Location])}
    ELSE IF Location \in DOMAIN route.headers.replaceOutgoing
    THEN {route.headers.replaceOutgoing[Location]}
    ELSE {}

\* C22: on a route with rewriteRedirects=true the redirect rewrite of Location
\* is finished before the outgoing header transform starts, so the outgoing
\* rules act on the rewritten Location (a rule naming Location removes or
\* overrides the rewritten value), and both are done when the status and the
\* headers are passed to the underlying writer.
C22_RewriteBeforeOutgoing ==
    [][FirstWriteOnRewritingRoute =>
            /\ respHeader' = ProcessOutgoing(env, MatchedRoute.headers,
                                             RewrittenHeaders(respHeader, writers'.statusCode))
            /\ client'.wroteHeader
            /\ client'.status = writers'.statusCode
            /\ client'.header = respHeader'
            /\ \A v \in LocationSetTo(MatchedRoute) : client'.header[Location] = <<v>>
            /\ (LocationStripped(MatchedRoute) /\ LocationSetTo(MatchedRoute) = {})
                    => Location \notin DOMAIN client'.header]_vars

\* A redirect to a known upstream has been answered on a route whose outgoing
\* rule sets Location to the URL of an upstream: the client has the rule's
\* value, not rewritten.
C22_Witness ==
    /\ pc = "WriteHeader"
    /\ MatchedRoute = RouteL
    /\ client.calls = 1
    /\ client.status = 302
    /\ HeaderGet(upstream.resp.header, Location) = LocKnown
    /\ client.header[Location] = <<LocInternal>>


\* The first call on the wrappers of the request is being made.
FirstWrite == ~ writers.swWroteHeader /\ writers'.swWroteHeader

\* The route has opted in, the status is a redirect and the Location of h is
\* an absolute URL on the upstream host of a configured route.
RewriteCase(h, statusCode) ==
    /\ writers.redirect
    /\ statusCode \in RedirectCodes
    /\ HeaderGet(h, Location) # <<>>
    /\ ~ Parsed(HeaderGet(h, Location)).err
    /\ Parsed(HeaderGet(h, Location)).scheme # <<>>
    /\ RoutesWithHost(Parsed(HeaderGet(h, Location)).host) # {}

\* g has the Location header of h, or none as h has none.
SameLocation(h, g) ==
    /\ Location \in DOMAIN h <=> Location \in DOMAIN g
    /\ Location \in DOMAIN h => g[Location] = h[Location]

\* C23: the redirect rewriter changes Location only when the matched route has
\* rewriteRedirects=true, the status written is 301, 302, 303, 307 or 308 and
\* Location is a non-empty absolute URL whose host is a configured upstream
\* host; in every other case the headers leave the writers as they would
\* without the rewriter (Location as the upstream sent it, unless an outgoing
\* rule names it) and the status is passed on.
C23_RewriteOnlyWhen ==
    [][(FirstWrite /\ ~ RewriteCase(respHeader, writers'.statusCode)) =>
            /\ respHeader' = IF writers.redirect
                             THEN ProcessOutgoing(env, MatchedRoute.headers, respHeader)
                             ELSE respHeader
            /\ (~ writers.redirect \/ OutgoingRulesSpareLocation(MatchedRoute))
                    => SameLocation(respHeader, respHeader')
            /\ client'.status = writers'.statusCode
            /\ client'.header = respHeader']_vars

\* A route that rewrites redirects has passed on a 200 whose Location names a
\* configured upstream, the Location untouched.
C23_Witness ==
    /\ pc = "WriteHeader"
    /\ MatchedRoute = RouteA
    /\ client.calls = 1
    /\ client.status = 200
    /\ HeaderGet(upstream.resp.header, Location) = LocKnown
    /\ client.header[Location] = <<LocKnown>>


----------------------------------------------------------------------------
(* The rewritten Location                                                   *)

\* The route a rewritten Location passes through: the matched route when the
\* Location names its upstream host, else the first route with that host.
TargetRoute ==
    IF Parsed(UpstreamLocation).host = Parsed(MatchedRoute.upstream).host THEN MatchedRoute
    ELSE routes[LeastOr(RoutesWithHost(Parsed(UpstreamLocation).host), 1)]

\* Scheme and host of the inbound request.
InboundScheme ==
    IF XForwardedProto \in DOMAIN req.header THEN req.header[XForwardedProto][1]
    ELSE IF req.tls THEN Https ELSE Http

\* "<scheme>://<host>" of a rewritten Location.
BaseOf(route) ==
    LET scheme == IF route.redirectBaseURL # <<>> THEN Parsed(route.redirectBaseURL).scheme
                  ELSE InboundScheme
        host == IF route.redirectBaseURL # <<>> THEN Parsed(route.redirectBaseURL).host
                ELSE req.host
    IN  (IF scheme = <<>> THEN Https ELSE scheme) \o <<":","/","/">> \o host

\* The path of the Location less the upstreamPathPrefix of the route.
PathLessUpstreamPrefix(route) ==
    IF route.upstreamPathPrefix # <<>>
    THEN TrimPrefix(Parsed(UpstreamLocation).path, route.upstreamPathPrefix)
    ELSE Parsed(UpstreamLocation).path

\* "?query" and "#fragment" as they stand in the Location of the upstream.
QueryAndFragment ==
    LET fragment == Cut(UpstreamLocation, <<"#">>).after
        query == Cut(Cut(UpstreamLocation, <<"#">>).before, <<"?">>).after
    IN  (IF query # <<>> THEN <<"?">> \o query ELSE <<>>)
            \o (IF fragment # <<>> THEN <<"#">> \o fragment ELSE <<>>)

\* A redirect to a configured upstream host has been answered by a rewriting
\* route whose outgoing rules leave Location alone.
RewrittenAnswered == C3_Case /\ OutgoingRulesSpareLocation(MatchedRoute)

\* The rewritten Location is scheme, host, pathPrefix, a slash, the rest of
\* the path, query and fragment.
LocationAssembled ==
    client.header[Location][1] =
        BaseOf(TargetRoute) \o TrimSuffix(TargetRoute.pathPrefix, <<"/">>) \o <<"/">>
            \o TrimPrefix(PathLessUpstreamPrefix(TargetRoute), <<"/">>) \o QueryAndFragment

\* One slash, not two, stands between pathPrefix and the rest of the path.
OneSlashBetween ==
    ~ HasPrefix(client.header[Location][1],
                BaseOf(TargetRoute) \o TrimSuffix(TargetRoute.pathPrefix, <<"/">>)
                    \o <<"/","/">>)

\* C24: a rewritten Location is <scheme>://<host><pathPrefix><path'>[?query]
\* [#fragment] of the target route: scheme and host from its redirectBaseURL
\* when set, else from the inbound request (X-Forwarded-Proto if present, else
\* https on TLS, else http; the inbound Host), an empty scheme becoming https;
\* path' the Location path less the route's upstreamPathPrefix; exactly one
\* "/" between pathPrefix and path'; query and fragment as they were.
C24_RewrittenLocation == RewrittenAnswered => (LocationAssembled /\ OneSlashBetween)


----------------------------------------------------------------------------
(* Metrics                                                                  *)

\* The counter vector vec with the child of the given labels one higher.
Bump(vec, labels) ==
    [x \in DOMAIN vec \cup {labels} |->
        IF x = labels THEN (IF x \in DOMAIN vec THEN vec[x] + 1 ELSE 1) ELSE vec[x]]

\* A matched request is handed to the transport in this step.
ForwardStep == pc = "idle" /\ pc' = "awaiting"

\* The reverse proxy has returned and the handler records the response.
CompletionStep == pc \in {"responding", "copied"} /\ pc' = "done"

C26_UpstreamErrorsCounted ==
    [][(config.metrics.enabled /\ upstream.err = "none" /\ upstream'.err # "none") =>
            metrics'.upstreamErrors =
                Bump(metrics.upstreamErrors, <<MatchedRoute.name, Method>>)]_vars


----------------------------------------------------------------------------
(* Construction: the TLS section and the defaults                           *)

\* The path names a regular file.
RegularFile(path) == path \in DOMAIN Files /\ Files[path] = "file"

\* The TLS section is one the claim has New reject.
TLSRejectable(t) ==
    \/ (t.certFile = "") # (t.keyFile = "")
    \/ t.certFile # "" /\ ~ RegularFile(t.certFile)
    \/ t.keyFile # "" /\ ~ RegularFile(t.keyFile)
    \/ t.caFile # "" /\ ~ RegularFile(t.caFile)
    \/ t.minVersion # "" /\ t.minVersion \notin {"1.0", "1.1", "1.2", "1.3"}

\* C27: New rejects a Config when exactly one of certFile/keyFile is set, when
\* a set certFile or keyFile is not an existing regular file, when a set
\* caFile is not an existing regular file, or when a set minVersion is not
\* 1.0, 1.1, 1.2 or 1.3; the caFile and minVersion checks apply whether or not
\* certFile/keyFile are set.
C27_TLSValidated == (pc # "new" /\ TLSRejectable(config.tls)) => pc = "failed"

\* The defaults the transport fields are to get.
TransportDefaults ==
    [maxIdleConns |-> 100, maxIdleConnsPerHost |-> 10, idleConnTimeout |-> 90,
     dialTimeout |-> 10, tlsHandshakeTimeout |-> 10, responseHeaderTimeout |-> 30,
     expectContinueTimeout |-> 1]

\* C28: after New has applied the defaults, each field of the transport
\* configuration holds the caller's value if the caller set it (non-zero) and
\* its default otherwise, field by field and independently of the others;
\* each route's timeout is 30s and its tlsMode "terminate" when left unset.
C28_DefaultsFieldByField ==
    [][pc = "new" =>
            /\ \A f \in DOMAIN TransportDefaults :
                  config'.transport[f] =
                      IF config.transport[f] # 0 THEN config.transport[f]
                      ELSE TransportDefaults[f]
            /\ \A i \in 1..Len(config.routes) :
                  /\ config'.routes[i].timeout =
                        IF config.routes[i].timeout # 0 THEN config.routes[i].timeout ELSE 30
                  /\ config'.routes[i].tlsMode =
                        IF config.routes[i].tlsMode # "" THEN config.routes[i].tlsMode
                        ELSE "terminate"]_vars


----------------------------------------------------------------------------
(* The environment read on every request                                    *)

\* The step in which the upstream's response head is written to the client.
RespondStep == pc = "awaiting" /\ pc' = "responding"

\* The added upstream headers the incoming rules and the hop-by-hop removal
\* leave alone.
AddedUpstream(route) ==
    {k \in DOMAIN route.headers.addUpstream :
        /\ ~ HopByHopName(k)
        /\ ToLower(k) # ToLower(XForwardedFor)
        /\ ~ StrippedName(route, k)}

\* C30: add-header templates are expanded against the environment as it is
\* when the request is handled, not as it was in New: the forwarded request
\* carries each addUpstream template and the response each addDownstream
\* template expanded with the current values (empty for an unset variable),
\* the configuration is not validated or changed again, and the request is
\* forwarded and answered with the upstream's status.
C30_ExpandedOnEveryRequest ==
    [][/\ ForwardStep =>
            /\ config' = config /\ routes' = routes
            /\ \A k \in AddedUpstream(routes[matched']) :
                  upstream'.req.header[CanonicalHeaderKey(k)]
                      = <<Expanded(routes[matched'].headers.addUpstream[k])>>
       /\ RespondStep =>
            /\ config' = config /\ routes' = routes
            /\ client'.status = upstream'.resp.status
            /\ \A k \in DOMAIN routes[matched].headers.addDownstream :
                  client'.header[CanonicalHeaderKey(k)]
                      = <<Expanded(routes[matched].headers.addDownstream[k])>>]_vars

\* K was set to "s3" when New accepted the template ${K}; it was changed to
\* "n" before the request was forwarded and unset before the response came.
C30_Witness ==
    /\ pc = "responding"
    /\ routes[matched].headers.addUpstream[XApiKey] = <<"$","{","K","}">>
    /\ EnvKey \notin DOMAIN env
    /\ upstream.req.header[XApiKey] = << <<"n">> >>
    /\ client.header[Via] = << <<>> >>
    /\ client.status = 200


----------------------------------------------------------------------------
(* Concurrent requests                                                      *)

\* The Config and the sorted routes, with their header rules, are as New left them.
SharedAsBuilt ==
    /\ config = ConcurrentConfig
    /\ routes \in sortRoutesByPrefixLength(ConcurrentConfig.routes)

\* The route a request of task t is matched to when it is handled alone.
AloneRoute(t) == routes[findRoute(routes, req[t].path)]

\* The writers ServeHTTP builds for the request of task t.
AloneStart(t) ==
    [w |-> [NoWriters EXCEPT !.redirect = AloneRoute(t).rewriteRedirects,
                             !.incomingHost = req[t].host,
                             !.incomingScheme = incomingScheme(req[t])],
     h |-> EmptyHeader, c |-> NoClient]

\* The writers, the header map and the response head the request of task t
\* gets from what its upstream answered, with no other request around.
AloneHead(t) ==
    IF upstream[t].err # "none"
    THEN swWriteHeader(AloneStart(t), env, routes, AloneRoute(t), 502)
    ELSE swWriteHeader([AloneStart(t) EXCEPT !.h = upstream[t].resp.header], env, routes,
                       AloneRoute(t), upstream[t].resp.status)

\* The same after the body.
AloneBody(t) == swWrite(AloneHead(t), env, routes, AloneRoute(t))

\* The writers, header map and client of task t as they are.
TaskState(t) == [w |-> writers[t], h |-> respHeader[t], c |-> client[t]]

\* The writers and header map of task t hold what its own request put there,
\* and what task t has sent upstream and to its client is what it sends alone.
AnsweredAsAlone(t) ==
    CASE pc[t] = "idle" -> TaskState(t) = [w |-> NoWriters, h |-> EmptyHeader, c |-> NoClient]
      [] findRoute(routes, req[t].path) = 0 ->
            /\ writers[t] = NoWriters /\ respHeader[t] = EmptyHeader
            /\ client[t].status = 404
            /\ upstream[t] = NoUpstream
      [] OTHER ->
            /\ upstream[t].req =
                  RoundTrip(AloneRoute(t),
                            addXForwardedFor(req[t], director(env, AloneRoute(t), req[t])))
            /\ pc[t] = "awaiting" => TaskState(t) = AloneStart(t)
            /\ pc[t] = "responding" => TaskState(t) = AloneHead(t)
            /\ pc[t] = "copied" => TaskState(t) = AloneBody(t)
            /\ pc[t] = "done" => TaskState(t) \in {AloneHead(t), AloneBody(t)}

\* C29: under any interleaving of concurrently handled requests and Close
\* calls, the Config and the sorted routes with their header rules stay as
\* they were at the end of New, the writers and header maps of each request
\* hold only what that request put there, and what each request sends
\* upstream and answers is what it sends and answers when handled alone.
C29_RequestsIndependent == SharedAsBuilt /\ \A t \in Tasks : AnsweredAsAlone(t)

\* Two requests on different routes were in flight together: the first got
\* its redirect rewritten, the second its body, and Close emptied the pool
\* after both had returned their connections.
C29_Witness ==
    /\ pc[1] = "done" /\ pc[2] = "done"
    /\ matched[1] # matched[2] /\ matched[1] # 0 /\ matched[2] # 0
    /\ upstream[1].err = "none" /\ upstream[2].err = "none"
    /\ client[1].status = 302
    /\ client[1].header[Location] = << <<"h","t","t","p",":","/","/","p","x","/","a","/","x">> >>
    /\ client[2].status = 200 /\ client[2].body > 0
    /\ idleConns = 0


====
